---- MODULE Spec2Model ----
(***************************************************************************)
(* Replicated-write durability layer of the expense tracker: the primary   *)
(* store (db), the two backup stores (backup1Db, backup2Db), the           *)
(* tripleWrite coordinator of the domain models, BackupManager             *)
(* (verifyIntegrity, restoreFromBackup, syncToBackups), the startup check  *)
(* and DatabaseHealth.attemptRecovery.                                     *)
(***************************************************************************)
EXTENDS Integers, Sequences, FiniteSets

\* ---------------------------------------------------------------- bounds
\* Largest AUTOINCREMENT id a table hands out in the model.
MaxId == 2
\* Largest number of I/O faults the environment injects into replica writes
\* in one behaviour.
MaxFaults == 1
MaxHoldings == 2
MaxCalls == 3

\* ------------------------------------------------------------ value sets
Users == {1, 2}
Amounts == {10, 20}
Names == {"HDFC", "Cash"}
\* The categories(id) rows every store holds, and the categoryId values a
\* caller passes: one of them, and one that names no row.
CategoryIds == {1}
CategoryInputs == {1, 9}
Replicas == {"backup1", "backup2"}
StoreNames == {"main"} \cup Replicas

\* Error values thrown by the engine and by the code.
NoError == "none"
ConstraintError == "SQLITE_CONSTRAINT"
IoError == "SQLITE_IOERR"
NotOpenError == "The database connection is not open"
BackupWriteError == "Failed to write to backup databases"
NotFoundError == "Investment not found"
LastAccountError == "Cannot delete the last account. At least one account is required."
NoTableError == "no such table"
DuplicateColumnError == "duplicate column name"
NoColumnError == "no such column"
UsernameExistsError == "Username already exists"

\* ------------------------------------------------------------ store data
\* The tables of one store file.  expSeq / accSeq are the sqlite_sequence
\* entries of the AUTOINCREMENT keys.  investments maps a user to the
\* manual override of the single modelled ticker, or -1 when there is no row.
NoRow == [id |-> 0]

\* The tables initDB creates, and the columns of expenses and incomes that
\* its migration looks for.  CREATE TABLE expenses has whereSpent and userId
\* but no accountId; CREATE TABLE incomes has accountId.
Tables == {"users", "categories", "expenses", "income_categories", "accounts", "incomes"}
CreatedExpenseColumns == {"whereSpent", "userId"}
ExpenseColumns == {"whereSpent", "userId", "accountId"}
IncomeColumns == {"accountId"}

\* The rows initDB seeds, by their UNIQUE name.
DefaultCategories ==
    {"Food & Dining", "Transportation", "Shopping", "Entertainment",
     "Bills & Utilities", "Health", "Travel", "Other"}
DefaultIncomeCategories ==
    {"Salary", "Freelance", "Investment", "Gift", "Refund", "Other Income"}
DefaultAccountName == "HDFC 1372"

\* A store after a completed startup and before any user data.  Besides the
\* rows: the tables that exist, the migrated columns of expenses and incomes,
\* the names in categories and income_categories, the users rows (pin 0 is a
\* NULL pinHash), whether users has the pinHash / pinSalt columns, which
\* CREATE TABLE users does not give it, and whether user 'abhiknes' has
\* expenses or incomes with accountId NULL.
EmptyData == [expenses |-> {}, expSeq |-> 0,
              accounts |-> {}, accSeq |-> 0,
              incomes |-> {}, incSeq |-> 0,
              investments |-> [u \in Users |-> -1],
              tables |-> Tables, expenseCols |-> ExpenseColumns,
              incomeCols |-> IncomeColumns,
              categories |-> DefaultCategories,
              incomeCategories |-> DefaultIncomeCategories,
              users |-> {}, pinColumns |-> FALSE, unlinked |-> FALSE]

\* SELECT id FROM users WHERE username = 'abhiknes': the id, or 0 for no row.
Abhiknes(d) ==
    IF \E r \in d.users : r.username = "abhiknes"
    THEN (CHOOSE r \in d.users : r.username = "abhiknes").id
    ELSE 0

\* A database file that was just created: no table at all.
BlankData == [EmptyData EXCEPT !.tables = {}, !.expenseCols = {}, !.incomeCols = {},
                               !.categories = {}, !.incomeCategories = {}]

SetMax(S) == IF S = {} THEN 0 ELSE CHOOSE m \in S : \A x \in S : x <= m

\* AUTOINCREMENT: one more than the largest id ever used in the table.
NextId(rows, seq) == SetMax({seq} \cup {r.id : r \in rows}) + 1

\* ------------------------------------------------------------ statements
\* A statement is a record; unused fields are 0 / "" / FALSE.
Stmt(kind, id, userId, amount, categoryId, name, isDefault, setName, setDefault) ==
    [kind |-> kind, id |-> id, userId |-> userId, amount |-> amount,
     categoryId |-> categoryId, name |-> name, isDefault |-> isDefault,
     setName |-> setName, setDefault |-> setDefault]

StmtResult(d, err, changes, rowid) ==
    [data |-> d, err |-> err, changes |-> changes, rowid |-> rowid]

\* INSERT INTO expenses ...: FOREIGN KEY (categoryId) REFERENCES categories(id)
InsertExpense(s, d) ==
    IF s.categoryId \notin CategoryIds
    THEN StmtResult(d, ConstraintError, 0, 0)
    ELSE LET nid == NextId(d.expenses, d.expSeq)
             row == [id |-> nid, userId |-> s.userId, amount |-> s.amount,
                     categoryId |-> s.categoryId]
         IN StmtResult([d EXCEPT !.expenses = @ \cup {row}, !.expSeq = nid],
                       NoError, 1, nid)

\* UPDATE expenses SET amount = ? WHERE id = ? AND userId = ?
UpdateExpense(s, d) ==
    LET hit == {r \in d.expenses : r.id = s.id /\ r.userId = s.userId}
        upd == {[r EXCEPT !.amount = s.amount] : r \in hit}
    IN StmtResult([d EXCEPT !.expenses = (@ \ hit) \cup upd],
                  NoError, Cardinality(hit), 0)

\* DELETE FROM expenses WHERE id = ? AND userId = ?
DeleteExpense(s, d) ==
    LET hit == {r \in d.expenses : r.id = s.id /\ r.userId = s.userId}
    IN StmtResult([d EXCEPT !.expenses = @ \ hit], NoError, Cardinality(hit), 0)

\* UPDATE accounts SET isDefault = 0 WHERE userId = ?
ClearDefault(s, d) ==
    LET hit == {r \in d.accounts : r.userId = s.userId}
        upd == {[r EXCEPT !.isDefault = 0] : r \in hit}
    IN StmtResult([d EXCEPT !.accounts = (@ \ hit) \cup upd],
                  NoError, Cardinality(hit), 0)

\* INSERT INTO accounts ...: UNIQUE(name, userId)
InsertAccount(s, d) ==
    IF \E r \in d.accounts : r.name = s.name /\ r.userId = s.userId
    THEN StmtResult(d, ConstraintError, 0, 0)
    ELSE LET nid == NextId(d.accounts, d.accSeq)
             row == [id |-> nid, userId |-> s.userId, name |-> s.name,
                     isDefault |-> s.isDefault]
         IN StmtResult([d EXCEPT !.accounts = @ \cup {row}, !.accSeq = nid],
                       NoError, 1, nid)

\* UPDATE accounts SET <fields> WHERE id = ? AND userId = ?: UNIQUE(name, userId)
UpdateAccount(s, d) ==
    LET hit == {r \in d.accounts : r.id = s.id /\ r.userId = s.userId}
        new(r) == [r EXCEPT !.name = IF s.setName THEN s.name ELSE @,
                            !.isDefault = IF s.setDefault THEN s.isDefault ELSE @]
        upd == {new(r) : r \in hit}
        clash == \E r \in hit : \E o \in d.accounts \ hit :
                     o.name = new(r).name /\ o.userId = r.userId
    IN IF clash
       THEN StmtResult(d, ConstraintError, 0, 0)
       ELSE StmtResult([d EXCEPT !.accounts = (@ \ hit) \cup upd],
                       NoError, Cardinality(hit), 0)

\* DELETE FROM accounts WHERE id = ? AND userId = ?
DeleteAccount(s, d) ==
    LET hit == {r \in d.accounts : r.id = s.id /\ r.userId = s.userId}
    IN StmtResult([d EXCEPT !.accounts = @ \ hit], NoError, Cardinality(hit), 0)

\* UPDATE investments SET manual_price_override = ? ... WHERE userId = ? AND ticker = ?
UpdateOverrides(s, d) ==
    IF d.investments[s.userId] = -1
    THEN StmtResult(d, NoError, 0, 0)
    ELSE StmtResult([d EXCEPT !.investments[s.userId] = s.amount], NoError, 1, 0)

\* INSERT INTO investments ... ON CONFLICT(userId, ticker) DO UPDATE SET ...
UpsertInvestment(s, d) ==
    StmtResult([d EXCEPT !.investments[s.userId] = s.amount], NoError, 1, 0)

\* INSERT INTO categories (name, icon, hexColor): name is UNIQUE.
InsertCategory(s, d) ==
    IF "categories" \notin d.tables THEN StmtResult(d, NoTableError, 0, 0)
    ELSE IF s.name \in d.categories THEN StmtResult(d, ConstraintError, 0, 0)
    ELSE StmtResult([d EXCEPT !.categories = @ \cup {s.name}], NoError, 1, 1)

\* DELETE FROM categories WHERE id = ?, the row being named by its name.
DeleteCategory(s, d) ==
    IF "categories" \notin d.tables THEN StmtResult(d, NoTableError, 0, 0)
    ELSE StmtResult([d EXCEPT !.categories = @ \ {s.name}], NoError,
                    IF s.name \in d.categories THEN 1 ELSE 0, 0)

\* A statement on incomes; accountId 0 is NULL.
IncomeStmt(kind, id, userId, amount, accountId) ==
    [kind |-> kind, id |-> id, userId |-> userId, amount |-> amount,
     accountId |-> accountId]

\* FOREIGN KEY (accountId) REFERENCES accounts(id): NULL or the id of a row,
\* of whatever user.
AccountExists(d, accountId) ==
    accountId = 0 \/ \E a \in d.accounts : a.id = accountId

\* INSERT INTO incomes (amount, ..., userId, ..., accountId, timestamp)
InsertIncome(s, d) ==
    IF ~AccountExists(d, s.accountId)
    THEN StmtResult(d, ConstraintError, 0, 0)
    ELSE StmtResult([d EXCEPT !.incomes = @ \cup {[id |-> NextId(d.incomes, d.incSeq),
                                                    userId |-> s.userId,
                                                    amount |-> s.amount,
                                                    accountId |-> s.accountId]},
                              !.incSeq = NextId(d.incomes, d.incSeq)],
                    NoError, 1, NextId(d.incomes, d.incSeq))

\* UPDATE incomes SET accountId = ? WHERE id = ? AND userId = ?
UpdateIncome(s, d) ==
    IF ~AccountExists(d, s.accountId) /\ \E r \in d.incomes : r.id = s.id /\ r.userId = s.userId
    THEN StmtResult(d, ConstraintError, 0, 0)
    ELSE StmtResult([d EXCEPT !.incomes =
                        {IF r.id = s.id /\ r.userId = s.userId
                         THEN [r EXCEPT !.accountId = s.accountId] ELSE r : r \in @}],
                    NoError,
                    Cardinality({r \in d.incomes : r.id = s.id /\ r.userId = s.userId}), 0)

\* DELETE FROM incomes WHERE id = ? AND userId = ?
DeleteIncome(s, d) ==
    StmtResult([d EXCEPT !.incomes = {r \in @ : ~(r.id = s.id /\ r.userId = s.userId)}],
               NoError,
               Cardinality({r \in d.incomes : r.id = s.id /\ r.userId = s.userId}), 0)

RunStmt(s, d) ==
    CASE s.kind = "insertExpense" -> InsertExpense(s, d)
      [] s.kind = "insertIncome" -> InsertIncome(s, d)
      [] s.kind = "updateIncome" -> UpdateIncome(s, d)
      [] s.kind = "deleteIncome" -> DeleteIncome(s, d)
      [] s.kind = "insertCategory" -> InsertCategory(s, d)
      [] s.kind = "deleteCategory" -> DeleteCategory(s, d)
      [] s.kind = "updateExpense" -> UpdateExpense(s, d)
      [] s.kind = "deleteExpense" -> DeleteExpense(s, d)
      [] s.kind = "clearDefault" -> ClearDefault(s, d)
      [] s.kind = "insertAccount" -> InsertAccount(s, d)
      [] s.kind = "updateAccount" -> UpdateAccount(s, d)
      [] s.kind = "deleteAccount" -> DeleteAccount(s, d)
      [] s.kind = "updateOverrides" -> UpdateOverrides(s, d)
      [] s.kind = "upsertInvestment" -> UpsertInvestment(s, d)

\* ------------------------------------------------------------ operations
\* The closure a model method hands to tripleWrite: at most two statements
\* and the rule that computes the return value on the main database.
Operation(method, stmts, userId) ==
    [method |-> method, stmts |-> stmts, userId |-> userId]
NoOperation == Operation("none", <<>>, 0)

ExpenseCreateOp(u, amount, categoryId) ==
    Operation("Expense.create",
              <<Stmt("insertExpense", 0, u, amount, categoryId, "", 0, FALSE, FALSE)>>, u)
ExpenseUpdateOp(id, u, amount) ==
    Operation("Expense.update",
              <<Stmt("updateExpense", id, u, amount, 0, "", 0, FALSE, FALSE)>>, u)
ExpenseDeleteOp(id, u) ==
    Operation("Expense.delete",
              <<Stmt("deleteExpense", id, u, 0, 0, "", 0, FALSE, FALSE)>>, u)
AccountCreateOp(u, name, isDefault) ==
    Operation("Account.create",
              (IF isDefault = 1
               THEN <<Stmt("clearDefault", 0, u, 0, 0, "", 0, FALSE, FALSE)>>
               ELSE <<>>)
              \o <<Stmt("insertAccount", 0, u, 0, 0, name, isDefault, FALSE, FALSE)>>, u)
AccountUpdateOp(id, u, setName, name, setDefault, isDefault) ==
    Operation("Account.update",
              (IF setDefault /\ isDefault = 1
               THEN <<Stmt("clearDefault", 0, u, 0, 0, "", 0, FALSE, FALSE)>>
               ELSE <<>>)
              \o <<Stmt("updateAccount", id, u, 0, 0, name, isDefault, setName, setDefault)>>, u)
\* Account.update with `updates = {isDefault: "0"}` or `{isDefault: "1"}`, a
\* string as the JSON body of PUT /api/accounts/:id may hold: `updates.isDefault
\* === 1` is false, and the INTEGER column stores the text as the integer.
TextAccountUpdateOp(id, u, isDefault) ==
    Operation("Account.update",
              <<Stmt("updateAccount", id, u, 0, 0, "", isDefault, FALSE, TRUE)>>, u)
AccountDeleteOp(id, u) ==
    Operation("Account.delete",
              <<Stmt("deleteAccount", id, u, 0, 0, "", 0, FALSE, FALSE)>>, u)
IncomeCreateOp(u, amount, accountId) ==
    Operation("Income.create", <<IncomeStmt("insertIncome", 0, u, amount, accountId)>>, u)
IncomeUpdateOp(id, u, accountId) ==
    Operation("Income.update", <<IncomeStmt("updateIncome", id, u, 0, accountId)>>, u)
IncomeDeleteOp(id, u) ==
    Operation("Income.delete", <<IncomeStmt("deleteIncome", id, u, 0, 0)>>, u)
CategoryCreateOp(name) ==
    Operation("Category.create",
              <<Stmt("insertCategory", 0, 0, 0, 0, name, 0, FALSE, FALSE)>>, 0)
CategoryDeleteOp(name) ==
    Operation("Category.delete",
              <<Stmt("deleteCategory", 0, 0, 0, 0, name, 0, FALSE, FALSE)>>, 0)
InvestmentUpsertOp(u, value) ==
    Operation("Investment.upsert",
              <<Stmt("upsertInvestment", 0, u, value, 0, "", 0, FALSE, FALSE)>>, u)
InvestmentUpdateOverridesOp(u, value) ==
    Operation("Investment.updateOverrides",
              <<Stmt("updateOverrides", 0, u, value, 0, "", 0, FALSE, FALSE)>>, u)

\* Statement k throws an I/O error when fault = k; otherwise the statements
\* run in order and the first error stops the closure, leaving the effects
\* of the statements before it in the store.
ExecSecond(stmts, r1, fault) ==
    IF r1.err # NoError \/ Len(stmts) = 1 THEN r1
    ELSE IF fault = 2 THEN StmtResult(r1.data, IoError, 0, 0)
    ELSE RunStmt(stmts[2], r1.data)
ExecStmts(stmts, d, fault) ==
    ExecSecond(stmts,
               IF fault = 1 THEN StmtResult(d, IoError, 0, 0) ELSE RunStmt(stmts[1], d),
               fault)

\* Return values, kept in one record shape.
RetRow(row) == [kind |-> "row", row |-> row, flag |-> FALSE]
RetFlag(b) == [kind |-> "flag", row |-> NoRow, flag |-> b]
RetNone == [kind |-> "none", row |-> NoRow, flag |-> FALSE]

\* getById(id, userId) on the main database: the row or nothing.
GetById(rows, id, u) ==
    IF \E r \in rows : r.id = id /\ r.userId = u
    THEN CHOOSE r \in rows : r.id = id /\ r.userId = u
    ELSE NoRow

\* LEFT JOIN accounts a ON i.accountId = a.id: the accounts row, or nothing.
JoinedAccount(d, accountId) ==
    IF \E a \in d.accounts : a.id = accountId
    THEN CHOOSE a \in d.accounts : a.id = accountId
    ELSE NoRow

\* Income.getById(id, userId) on the main database: the incomes row with the
\* columns of the joined accounts row, or nothing.
WithAccount(d, row) ==
    IF row = NoRow THEN NoRow
    ELSE [id |-> row.id, userId |-> row.userId, amount |-> row.amount,
          accountId |-> row.accountId, account |-> JoinedAccount(d, row.accountId)]
IncomeGetById(d, id, u) == WithAccount(d, GetById(d.incomes, id, u))

\* What the closure returns when `database === db`.
MainReturn(op, r) ==
    LET last == op.stmts[Len(op.stmts)]
    IN CASE op.method = "Expense.create" -> RetRow(GetById(r.data.expenses, r.rowid, op.userId))
         [] op.method = "Expense.update" -> RetRow(GetById(r.data.expenses, last.id, op.userId))
         [] op.method = "Expense.delete" -> RetFlag(r.changes > 0)
         [] op.method = "Account.create" -> RetRow(GetById(r.data.accounts, r.rowid, op.userId))
         [] op.method = "Account.update" -> RetRow(GetById(r.data.accounts, last.id, op.userId))
         [] op.method = "Account.delete" -> RetFlag(r.changes > 0)
         [] op.method = "Income.create" -> RetRow(IncomeGetById(r.data, r.rowid, op.userId))
         [] op.method = "Income.update" -> RetRow(IncomeGetById(r.data, last.id, op.userId))
         [] op.method = "Income.delete" -> RetFlag(r.changes > 0)
         [] op.method = "Category.create" ->
                RetRow([id |-> r.rowid, name |-> last.name])
         [] op.method = "Category.delete" -> RetFlag(r.changes > 0)
         [] op.method = "Investment.upsert" ->
                RetRow([id |-> 0, userId |-> op.userId, override |-> r.data.investments[op.userId]])
         [] op.method = "Investment.updateOverrides" ->
                RetRow([id |-> 0, userId |-> op.userId, override |-> r.data.investments[op.userId]])

\* operation(database): the closure applied to one store's data.
\* r is what the statements of the closure did.
OperationResult(op, r, isMain) ==
    IF r.err # NoError
    THEN [data |-> r.data, err |-> r.err, ret |-> RetNone]
    ELSE IF isMain /\ op.method = "Investment.updateOverrides" /\ r.changes = 0
    THEN [data |-> r.data, err |-> NotFoundError, ret |-> RetNone]
    ELSE [data |-> r.data, err |-> NoError,
          ret |-> IF isMain THEN MainReturn(op, r) ELSE RetNone]
RunOperation(op, d, isMain, fault) ==
    OperationResult(op, ExecStmts(op.stmts, d, fault), isMain)

\* ----------------------------------------------------------------- state
\* stores[s]     the file of store s: whether it exists, what the engine's
\*               integrity scan of it yields, and its tables
\* dbOpen        the main handle `db` is open
\* backupDb[r]   the handle backup1Db / backup2Db is non-null
\* pc            "load" until performStartupCheck has run, then "serving"
\* syncing       replicas for which a db.backup() copy is in flight
\* last          the last call: what was called and what the caller observed
\* faultsLeft    I/O faults the environment may still inject into replica writes
\* replicaThrew  some replica write has thrown since the process started
\* startup       what the module initialization of this process has done: how
\*               often initDB and performStartupCheck have run, the value
\*               performStartupCheck returned, and whether it found the main
\*               database failing verification with no usable backup
\* reg           the User.create calls of this process: awaiting the password
\*               hash, or completed with their outcome
\* calc          the GET /api/investments/calculate request in progress and
\*               the apiCache of Alpha Vantage responses
\* client        a browser running public/app.js: its localStorage and
\*               sessionStorage entries, the fields of state and what the
\*               page shows
VARIABLES stores, dbOpen, backupDb, pc, syncing, last, faultsLeft, replicaThrew,
          startup, calc, reg, client

\* The variables of the database layer, and those of the handlers apart
\* from it.
dbVars == <<stores, dbOpen, backupDb, pc, syncing, last, faultsLeft, replicaThrew,
            startup>>
sideVars == <<calc, reg, client>>

vars == <<stores, dbOpen, backupDb, pc, syncing, last, faultsLeft, replicaThrew,
          startup, sideVars>>

\* ------------------------------------------------------------ tripleWrite
\* The try block of tripleWrite: operation(backup1Db), then
\* operation(backup2Db), each only if the handle is non-null; the first throw
\* leaves the block.  Replica statements are not inside a replica
\* transaction, so the statements before a throw stay applied.
FanOut(S, attempted, failed) ==
    [stores |-> S, attempted |-> attempted, failed |-> failed]

\* `if (backupNDb) operation(backupNDb)`: x is what the closure did to the
\* replica's tables.
ReplicaWritten(S, r, x) ==
    FanOut([S EXCEPT ![r].data = x.data], {r}, IF x.err # NoError THEN {r} ELSE {})
ReplicaWrite(op, S, bk, f, r) ==
    IF bk[r]
    THEN ReplicaWritten(S, r, RunOperation(op, S[r].data, FALSE, f[r]))
    ELSE FanOut(S, {}, {})

\* Mutant: only backup1 is written.
SkipBackup2FanOut(op, S, bk, f) == ReplicaWrite(op, S, bk, f, "backup1")

\* w1 is the write to backup1, w2 the write to backup2 that follows it
\* unless the first threw.
FanOutBoth(w1, w2) ==
    FanOut(w2.stores, w1.attempted \cup w2.attempted, w1.failed \cup w2.failed)
FanOutAfter(op, bk, f, w1) ==
    IF w1.failed # {} THEN w1
    ELSE FanOutBoth(w1, ReplicaWrite(op, w1.stores, bk, f, "backup2"))
ReplicaFanOut(op, S, bk, f) ==
    FanOutAfter(op, bk, f, ReplicaWrite(op, S, bk, f, "backup1"))

\* What one tripleWrite call did: the stores after it, the error the caller
\* sees and the value returned, the error operation(db) threw, how often
\* operation(db) was invoked, the main tables as operation(db) left them
\* inside the transaction, the value operation(db) returned, and the
\* replicas the closure was invoked on / threw on.
WriteOutcome(S, err, ret, primaryErr, primaryCalls, primaryData, primaryRet, attempted, failed) ==
    [stores |-> S, err |-> err, ret |-> ret, primaryErr |-> primaryErr,
     primaryCalls |-> primaryCalls, primaryData |-> primaryData,
     primaryRet |-> primaryRet, attempted |-> attempted, failed |-> failed]

NotOpen(S) ==
    WriteOutcome(S, NotOpenError, RetNone, NotOpenError, 0, S["main"].data, RetNone, {}, {})

\* The end of the transaction function, p being what operation(db) did and
\* fan what the replica block did: both succeeded and the transaction
\* commits, or the replica block threw and the main store is rolled back.
AfterPrimary(p, fan) ==
    IF fan.failed # {}
    THEN WriteOutcome(fan.stores, BackupWriteError, RetNone, NoError, 1,
                      p.data, p.ret, fan.attempted, fan.failed)
    ELSE WriteOutcome([fan.stores EXCEPT !["main"].data = p.data],
                      NoError, p.ret, NoError, 1,
                      p.data, p.ret, fan.attempted, fan.failed)

\* Mutant: no transaction around the main write, a throw of the closure
\* leaves the statements before it applied to the main store.
NoRollbackTransaction(S, p, fan) ==
    IF p.err # NoError
    THEN WriteOutcome([S EXCEPT !["main"].data = p.data], p.err, RetNone, p.err, 1,
                      p.data, RetNone, {}, {})
    ELSE AfterPrimary(p, fan)

\* Mutant: the replica block runs even when the closure threw on main.
FanOutFirstTransaction(S, p, fan) ==
    IF p.err # NoError
    THEN WriteOutcome(fan.stores, p.err, RetNone, p.err, 1,
                      p.data, RetNone, fan.attempted, fan.failed)
    ELSE AfterPrimary(p, fan)

\* db.transaction(() => { result = operation(db); try { replicas } catch
\* { throw new Error(BackupWriteError) }; return result })(): a throw of
\* operation(db) leaves the function before the replica block, and every
\* throw inside the function rolls the main store back and is rethrown.
Transaction(S, p, fan) ==
    IF p.err # NoError
    THEN WriteOutcome(S, p.err, RetNone, p.err, 1, p.data, RetNone, {}, {})
    ELSE AfterPrimary(p, fan)

\* tripleWrite(operation); a closed db makes db.transaction() itself throw.
TripleWrite(op, S, open, bk, f) ==
    IF ~open
    THEN NotOpen(S)
    ELSE Transaction(S, RunOperation(op, S["main"].data, TRUE, f["main"]),
                     ReplicaFanOut(op, S, bk, f))

\* ----------------------------------------------------- the domain methods
\* The last call as its caller saw it, and what it did to the stores:
\*   tw            the call reached tripleWrite
\*   err, ret      the error thrown to the caller / the value returned
\*   primaryErr    the error operation(db) threw
\*   primaryCalls  how often operation(db) was invoked
\*   primaryRet    the value operation(db) returned
\*   primaryDirty  operation(db) had changed main tables inside the transaction
\*   primaryKept   after the call main holds the tables operation(db) left
\*   mainChanged   the main file differs from what it was before the call
\*   touched       the replicas whose file differs from before the call
\*   attempted, failed   the replicas the closure was invoked on / threw on
\*   ok, source    the result of a maintenance call: success and the backup used
\*   arg           the backupNum argument of restoreFromBackup
\*   mainOk        when the call began, db was open and main scanned to "ok"
\*   usable        the backups whose file, when the call began, existed and
\*                 scanned to "ok"
\*   copyFaults    the backups whose copy to main the environment fails
\*   closedDb      the call closed db
\*   seeded        the tables of main into which initDB inserted default rows
Call(name, tw, S, w, ok, source) ==
    [call |-> name, tw |-> tw, err |-> w.err, ret |-> w.ret,
     primaryErr |-> w.primaryErr, primaryCalls |-> w.primaryCalls,
     primaryRet |-> w.primaryRet,
     primaryDirty |-> (w.primaryData # S["main"].data),
     primaryKept |-> (w.stores["main"].data = w.primaryData),
     mainChanged |-> (w.stores["main"] # S["main"]),
     touched |-> {r \in Replicas : w.stores[r] # S[r]},
     attempted |-> w.attempted, failed |-> w.failed,
     ok |-> ok, source |-> source, arg |-> 0,
     mainOk |-> FALSE, usable |-> {}, copyFaults |-> {}, closedDb |-> FALSE,
     seeded |-> {}]
NoWrite(S, err, ret) == WriteOutcome(S, err, ret, NoError, 0, S["main"].data, RetNone, {}, {})
NoCall == [Call("none", FALSE, [s \in StoreNames |-> [data |-> EmptyData]],
                NoWrite([s \in StoreNames |-> [data |-> EmptyData]], NoError, RetNone),
                FALSE, "none") EXCEPT !.primaryKept = FALSE]

\* The faults a call can meet: none, or statement k of the closure throws an
\* I/O error on one store.  A throw on main ends the call and a throw on
\* backup1 skips backup2, so one fault per call is all that can be observed.
FaultChoices(op) ==
    {f \in [StoreNames -> 0..Len(op.stmts)] :
        Cardinality({s \in StoreNames : f[s] # 0}) <= 1}

\* A method that hands its closure to tripleWrite and returns its result.
Mutate(op) ==
    \E f \in FaultChoices(op) :
    \E w \in {TripleWrite(op, stores, dbOpen, backupDb, f)} :
       LET injected == \E r \in Replicas : f[r] # 0
       IN /\ injected => faultsLeft > 0
          /\ stores' = w.stores
          /\ last' = Call(op.method, TRUE, stores, w, FALSE, "none")
          /\ faultsLeft' = IF injected THEN faultsLeft - 1 ELSE faultsLeft
          /\ replicaThrew' = (replicaThrew \/ w.failed # {})
          /\ UNCHANGED <<dbOpen, backupDb, pc, syncing, startup, sideVars>>

\* A method that returns or throws before it reaches tripleWrite.
ReturnEarly(name, err, ret) ==
    /\ last' = [Call(name, FALSE, stores, NoWrite(stores, err, ret), FALSE, "none")
                  EXCEPT !.primaryKept = FALSE]
    /\ UNCHANGED <<stores, dbOpen, backupDb, pc, syncing, faultsLeft, replicaThrew, startup, sideVars>>

ExpenseRoom == \A s \in StoreNames : stores[s].data.expSeq < MaxId
AccountRoom == \A s \in StoreNames : stores[s].data.accSeq < MaxId

ExpenseCreate ==
    /\ pc = "serving"
    /\ ExpenseRoom
    /\ \E u \in Users, a \in Amounts, c \in CategoryInputs :
          Mutate(ExpenseCreateOp(u, a, c))

ExpenseUpdate ==
    /\ pc = "serving"
    /\ \E id \in 1..MaxId, u \in Users, a \in Amounts, hasFields \in BOOLEAN :
          IF hasFields
          THEN Mutate(ExpenseUpdateOp(id, u, a))
          ELSE ReturnEarly("Expense.update", NoError, RetNone)

ExpenseDelete ==
    /\ pc = "serving"
    /\ \E id \in 1..MaxId, u \in Users :
          Mutate(ExpenseDeleteOp(id, u))

AccountCreate ==
    /\ pc = "serving"
    /\ AccountRoom
    /\ \E u \in Users, n \in Names, isDefault \in {0, 1} :
          Mutate(AccountCreateOp(u, n, isDefault))

\* The `updates` objects tried: isDefault alone, name alone, both, and one
\* without any allowed field, for which the method returns null.
AccountUpdates ==
    {[setName |-> FALSE, name |-> "", setDefault |-> TRUE, isDefault |-> d] : d \in {0, 1}}
    \cup {[setName |-> TRUE, name |-> n, setDefault |-> FALSE, isDefault |-> 0] : n \in Names}
    \cup {[setName |-> TRUE, name |-> n, setDefault |-> TRUE, isDefault |-> 1] : n \in Names}
    \cup {[setName |-> FALSE, name |-> "", setDefault |-> FALSE, isDefault |-> 0]}

AccountUpdate ==
    /\ pc = "serving"
    /\ \E id \in 1..MaxId, u \in Users, upd \in AccountUpdates :
          IF upd.setName \/ upd.setDefault
          THEN Mutate(AccountUpdateOp(id, u, upd.setName, upd.name,
                                      upd.setDefault, upd.isDefault))
          ELSE ReturnEarly("Account.update", NoError, RetNone)

\* Mutant: Account.delete without the COUNT(*) guard.
UnguardedAccountDelete ==
    /\ pc = "serving"
    /\ \E id \in 1..MaxId, u \in Users :
          Mutate(AccountDeleteOp(id, u))

\* The COUNT(*) guard reads the main database before tripleWrite is reached.
AccountDelete ==
    /\ pc = "serving"
    /\ \E id \in 1..MaxId, u \in Users :
          IF ~dbOpen
          THEN ReturnEarly("Account.delete", NotOpenError, RetNone)
          ELSE IF Cardinality({r \in stores["main"].data.accounts : r.userId = u}) <= 1
          THEN ReturnEarly("Account.delete", LastAccountError, RetNone)
          ELSE Mutate(AccountDeleteOp(id, u))

AccountUpdateText ==
    /\ pc = "serving"
    /\ \E id \in 1..MaxId, u \in Users, isDefault \in {0, 1} :
          Mutate(TextAccountUpdateOp(id, u, isDefault))

\* Account.getDefaultAccount(userId): the account marked default, else the
\* account with the least id, else a new default account 'Cash'.
DefaultOf(accounts) ==
    IF \E a \in accounts : a.isDefault = 1
    THEN CHOOSE a \in accounts : a.isDefault = 1
    ELSE CHOOSE a \in accounts : \A b \in accounts : a.id <= b.id
AccountGetDefault ==
    /\ pc = "serving"
    /\ dbOpen
    /\ \E u \in Users :
          IF \E a \in stores["main"].data.accounts : a.userId = u
          THEN ReturnEarly("Account.getDefaultAccount", NoError,
                           RetRow(DefaultOf({a \in stores["main"].data.accounts :
                                                a.userId = u})))
          ELSE AccountRoom /\ Mutate(AccountCreateOp(u, "Cash", 1))

\* Income.create / update / delete called with userId u.  accountId is NULL
\* (0) or the id of one of the two accounts; an `updates` object without an
\* allowed field makes update return null.
IncomeRoom == \A s \in StoreNames : stores[s].data.incSeq < MaxId
AccountInputs == {0, 1, 2}
IncomeCreateBy(u) ==
    /\ pc = "serving"
    /\ IncomeRoom
    /\ \E a \in AccountInputs : Mutate(IncomeCreateOp(u, 10, a))
IncomeUpdateBy(u) ==
    /\ pc = "serving"
    /\ \E id \in 1..MaxId, a \in AccountInputs, hasFields \in BOOLEAN :
          IF hasFields
          THEN Mutate(IncomeUpdateOp(id, u, a))
          ELSE ReturnEarly("Income.update", NoError, RetNone)
IncomeDeleteBy(u) ==
    /\ pc = "serving"
    /\ \E id \in 1..MaxId : Mutate(IncomeDeleteOp(id, u))
IncomeCreate == \E u \in Users : IncomeCreateBy(u)
IncomeUpdate == \E u \in Users : IncomeUpdateBy(u)
IncomeDelete == \E u \in Users : IncomeDeleteBy(u)

InvestmentUpsert ==
    /\ pc = "serving"
    /\ \E u \in Users, v \in Amounts :
          Mutate(InvestmentUpsertOp(u, v))

InvestmentUpdateOverrides ==
    /\ pc = "serving"
    /\ \E u \in Users, v \in Amounts :
          Mutate(InvestmentUpdateOverridesOp(u, v))

\* ------------------------------------------------------------------ User
\* User.create and User.setPin do not call tripleWrite: they run their own
\* statements on db and then on backup1Db and backup2Db.
Usernames == {"abhiknes", "guest"}
Pins == {1, 2}

\* Mutant: the INSERT without the username check before it.
UncheckedInsertUser(d, name) ==
    StmtResult([d EXCEPT !.users = @ \cup {[id |-> NextId(d.users, 0),
                                            username |-> name, pin |-> 0]}],
               NoError, 1, NextId(d.users, 0))

\* The transaction function of User.create on db: the username check, then
\* INSERT INTO users.
InsertUser(d, name) ==
    IF \E r \in d.users : r.username = name
    THEN StmtResult(d, UsernameExistsError, 0, 0)
    ELSE StmtResult([d EXCEPT !.users = @ \cup {[id |-> NextId(d.users, 0),
                                                  username |-> name, pin |-> 0]}],
                    NoError, 1, NextId(d.users, 0))

\* INSERT OR REPLACE INTO users (id, username, ...) on a backup: the rows
\* with that id or that username give way to the new row.
ReplaceUser(d, id, name, fault) ==
    IF fault THEN StmtResult(d, IoError, 0, 0)
    ELSE IF "users" \notin d.tables THEN StmtResult(d, NoTableError, 0, 0)
    ELSE StmtResult([d EXCEPT !.users =
                        {r \in @ : r.id # id /\ r.username # name}
                        \cup {[id |-> id, username |-> name, pin |-> 0]}],
                    NoError, 1, id)

\* UPDATE users SET pinHash = ?, pinSalt = ? WHERE id = ?
UpdatePin(d, id, pin, fault) ==
    IF fault THEN StmtResult(d, IoError, 0, 0)
    ELSE IF "users" \notin d.tables THEN StmtResult(d, NoTableError, 0, 0)
    ELSE IF ~d.pinColumns THEN StmtResult(d, NoColumnError, 0, 0)
    ELSE StmtResult([d EXCEPT !.users =
                        {IF r.id = id THEN [r EXCEPT !.pin = pin] ELSE r : r \in @}],
                    NoError, Cardinality({r \in d.users : r.id = id}), 0)

\* The statement of a User method on one backup: stmt is "create" or "setPin".
UserReplicaStmt(stmt, d, id, name, pin, fault) ==
    IF stmt = "create" THEN ReplaceUser(d, id, name, fault)
    ELSE UpdatePin(d, id, pin, fault)
UserReplicaWrite(stmt, S, bk, f, r, id, name, pin) ==
    IF bk[r]
    THEN ReplicaWritten(S, r, UserReplicaStmt(stmt, S[r].data, id, name, pin, f[r] # 0))
    ELSE FanOut(S, {}, {})
UserFanOutAfter(stmt, bk, f, w1, id, name, pin) ==
    IF w1.failed # {} THEN w1
    ELSE FanOutBoth(w1, UserReplicaWrite(stmt, w1.stores, bk, f, "backup2", id, name, pin))
\* The `try { if (backup1Db) ...; if (backup2Db) ... }` of both methods.
UserFanOut(stmt, S, bk, f, id, name, pin) ==
    UserFanOutAfter(stmt, bk, f,
                    UserReplicaWrite(stmt, S, bk, f, "backup1", id, name, pin),
                    id, name, pin)

\* User.create: p is what the statements on db did.  Everything runs in one
\* db.transaction, so a throw on db or on a backup rolls main back.
UserRow(p, name) == [data |-> p.data, ret |-> RetRow([id |-> p.rowid, username |-> name])]
UserCreated(S, p, bk, f, name) ==
    IF p.err # NoError
    THEN WriteOutcome(S, p.err, RetNone, p.err, 1, p.data, RetNone, {}, {})
    ELSE AfterPrimary(UserRow(p, name), UserFanOut("create", S, bk, f, p.rowid, name, 0))
UserCreateResult(S, open, bk, f, name) ==
    IF ~open THEN NotOpen(S)
    ELSE UserCreated(S, InsertUser(S["main"].data, name), bk, f, name)

\* User.setPin: the UPDATE on db is not in a transaction and stays when a
\* backup throws.
PinSynced(p, fan) ==
    WriteOutcome([fan.stores EXCEPT !["main"].data = p.data],
                 IF fan.failed # {} THEN BackupWriteError ELSE NoError,
                 IF fan.failed # {} THEN RetNone ELSE RetFlag(TRUE),
                 NoError, 1, p.data, RetFlag(TRUE), fan.attempted, fan.failed)
PinSet(S, p, bk, f, id, pin) ==
    IF p.err # NoError
    THEN WriteOutcome(S, p.err, RetNone, p.err, 1, p.data, RetNone, {}, {})
    ELSE PinSynced(p, UserFanOut("setPin", S, bk, f, id, "", pin))
UserSetPinResult(S, open, bk, f, id, pin) ==
    IF ~open THEN NotOpen(S)
    ELSE PinSet(S, UpdatePin(S["main"].data, id, pin, FALSE), bk, f, id, pin)

\* The faults of a User call: none, or the statement throws on one backup.
UserFaultChoices ==
    {f \in [StoreNames -> {0, 1}] :
        f["main"] = 0 /\ Cardinality({s \in StoreNames : f[s] # 0}) <= 1}

\* A User method: w is what it did.  It did not go through tripleWrite.
UserWrites(name, w, f) ==
    /\ (\E r \in Replicas : f[r] # 0) => faultsLeft > 0
    /\ stores' = w.stores
    /\ last' = Call(name, FALSE, stores, w, FALSE, "none")
    /\ faultsLeft' = IF \E r \in Replicas : f[r] # 0 THEN faultsLeft - 1 ELSE faultsLeft
    /\ replicaThrew' = (replicaThrew \/ w.failed # {})
UserCall(name, w, f) ==
    /\ UserWrites(name, w, f)
    /\ UNCHANGED <<dbOpen, backupDb, pc, syncing, startup, sideVars>>

UserCreate ==
    /\ pc = "serving"
    /\ \E name \in Usernames, f \in UserFaultChoices :
       \E w \in {UserCreateResult(stores, dbOpen, backupDb, f, name)} :
          UserCall("User.create", w, f)

\* Concurrent User.create calls.  A call first awaits hashPassword, during
\* which other calls run; what follows the await, the IMMEDIATE transaction
\* with the username check, the INSERT and the backup writes, is synchronous.
Callers == 1..MaxCalls
NotCalled == [pc |-> "idle", name |-> "", err |-> NoError]
NoRegs == [c \in Callers |-> NotCalled]

\* Line 35: `await this.hashPassword(password)`.
RegisterBegin ==
    /\ pc = "serving"
    /\ \E c \in Callers, name \in Usernames :
          /\ reg[c].pc = "idle"
          /\ reg' = [reg EXCEPT ![c] = [pc |-> "hashing", name |-> name, err |-> NoError]]
    /\ UNCHANGED <<dbVars, calc, client>>

\* Lines 39-80: createUser.immediate().
RegisterCommit ==
    /\ pc = "serving"
    /\ \E c \in Callers, f \in UserFaultChoices :
          /\ reg[c].pc = "hashing"
          /\ \E w \in {UserCreateResult(stores, dbOpen, backupDb, f, reg[c].name)} :
                /\ UserWrites("User.create", w, f)
                /\ reg' = [reg EXCEPT ![c] = [pc |-> "done", name |-> reg[c].name,
                                              err |-> w.err]]
    /\ UNCHANGED <<dbOpen, backupDb, pc, syncing, startup, calc, client>>

UserSetPin ==
    /\ pc = "serving"
    /\ \E id \in 1..Cardinality(Usernames), pin \in Pins, f \in UserFaultChoices :
       \E w \in {UserSetPinResult(stores, dbOpen, backupDb, f, id, pin)} :
          UserCall("User.setPin", w, f)

\* -------------------------------------------------------- integrity scan
\* What `PRAGMA integrity_check` yields: a throw, or the list of result rows.
ScanOk == [threw |-> FALSE, rows |-> <<"ok">>]
ScanOneError == [threw |-> FALSE, rows |-> <<"row 1 missing from index">>]
ScanTwoErrors == [threw |-> FALSE, rows |-> <<"wrong # of entries in index", "row 1 missing from index">>]
ScanThrows == [threw |-> TRUE, rows |-> <<>>]
ScanOutcomes == {ScanOk, ScanOneError, ScanTwoErrors, ScanThrows}

File(exists, scan, data) == [exists |-> exists, scan |-> scan, data |-> data]

\* A handle as the integrity scan sees it: open or closed, and the scan the
\* engine produces for the file behind it.
Handle(open, file) == [open |-> open, scan |-> file.scan]
MainHandle == Handle(dbOpen, stores["main"])

\* database.pragma('integrity_check'): throws on a closed handle.
Pragma(h) == IF h.open THEN h.scan ELSE ScanThrows

\* Mutant: any scan that returns rows counts as a pass.
AnyRowsVerifyIntegrity(h) ==
    LET result == Pragma(h)
    IN IF result.threw THEN FALSE
       ELSE Len(result.rows) > 0

\* BackupManager.verifyIntegrity(database): result[0].integrity_check === 'ok';
\* a throw of the pragma, or of result[0] on an empty result, is caught.
VerifyIntegrity(h) ==
    LET result == Pragma(h)
    IN IF result.threw THEN FALSE
       ELSE IF Len(result.rows) = 0 THEN FALSE
       ELSE result.rows[1] = "ok"

BackupPath(backupNum) == IF backupNum = 1 THEN "backup1" ELSE "backup2"

Restored(S, open, ok) == [stores |-> S, dbOpen |-> open, ok |-> ok]

\* Mutant: the backup is copied without the integrity check.
UncheckedRestoreFromBackup(backupNum, S, open, copyThrows) ==
    LET sourcePath == BackupPath(backupNum)
    IN IF ~S[sourcePath].exists THEN Restored(S, open, FALSE)
       ELSE IF copyThrows THEN Restored(S, FALSE, FALSE)
       ELSE Restored([S EXCEPT !["main"] = S[sourcePath]], FALSE, TRUE)

\* BackupManager.restoreFromBackup(backupNum): existsSync(sourcePath), open
\* the backup file and verify it, db.close(), copyFileSync(sourcePath,
\* mainDbPath); every throw is caught and gives false.  db is not reopened.
RestoreFromBackup(backupNum, S, open, copyThrows) ==
    LET sourcePath == BackupPath(backupNum)
        isValid == VerifyIntegrity(Handle(TRUE, S[sourcePath]))
    IN IF ~S[sourcePath].exists THEN Restored(S, open, FALSE)
       ELSE IF ~isValid THEN Restored(S, open, FALSE)
       ELSE IF copyThrows THEN Restored(S, FALSE, FALSE)
       ELSE Restored([S EXCEPT !["main"] = S[sourcePath]], FALSE, TRUE)

\* BackupManager.syncToBackups(): db.backup(path) for each non-null backup
\* handle.  db.backup throws at once on a closed db (caught, false);
\* otherwise it starts an asynchronous copy and the call returns true.
SyncToBackups(open, bk) ==
    IF \A r \in Replicas : ~bk[r] THEN [started |-> {}, ok |-> TRUE]
    ELSE IF ~open THEN [started |-> {}, ok |-> FALSE]
    ELSE [started |-> {r \in Replicas : bk[r]}, ok |-> TRUE]

Recovered(S, open, ok, source, started) ==
    [stores |-> S, dbOpen |-> open, ok |-> ok, source |-> source, started |-> started]

\* performStartupCheck(): verify main; if it fails restore from backup 1,
\* then from backup 2.  source is the backup named in the log line.
PerformStartupCheckResult(S, open, bk, copyFaults) ==
    LET r1 == RestoreFromBackup(1, S, open, 1 \in copyFaults)
        r2 == RestoreFromBackup(2, r1.stores, r1.dbOpen, 2 \in copyFaults)
    IN IF VerifyIntegrity(Handle(open, S["main"]))
       THEN Recovered(S, open, TRUE, "none", SyncToBackups(open, bk).started)
       ELSE IF r1.ok THEN Recovered(r1.stores, r1.dbOpen, TRUE, "backup1", {})
       ELSE IF r2.ok THEN Recovered(r2.stores, r2.dbOpen, TRUE, "backup2", {})
       ELSE Recovered(r2.stores, r2.dbOpen, FALSE, "none", {})

\* Mutant: the backups are promoted whatever the verdict on the primary.
EagerAttemptRecoveryResult(S, open, copyFaults) ==
    LET r1 == RestoreFromBackup(1, S, open, 1 \in copyFaults)
        r2 == RestoreFromBackup(2, r1.stores, r1.dbOpen, 2 \in copyFaults)
    IN IF r1.ok THEN Recovered(r1.stores, r1.dbOpen, TRUE, "backup1", {})
       ELSE IF r2.ok THEN Recovered(r2.stores, r2.dbOpen, TRUE, "backup2", {})
       ELSE Recovered(r2.stores, r2.dbOpen, VerifyIntegrity(Handle(open, S["main"])),
                      "none", {})

\* Mutant: backup 2 is tried before backup 1.
Backup2FirstAttemptRecoveryResult(S, open, copyFaults) ==
    LET r2 == RestoreFromBackup(2, S, open, 2 \in copyFaults)
        r1 == RestoreFromBackup(1, r2.stores, r2.dbOpen, 1 \in copyFaults)
    IN IF VerifyIntegrity(Handle(open, S["main"]))
       THEN Recovered(S, open, TRUE, "none", {})
       ELSE IF r2.ok THEN Recovered(r2.stores, r2.dbOpen, TRUE, "backup2", {})
       ELSE IF r1.ok THEN Recovered(r1.stores, r1.dbOpen, TRUE, "backup1", {})
       ELSE Recovered(r1.stores, r1.dbOpen, FALSE, "none", {})

\* DatabaseHealth.attemptRecovery(): {success, source}.
AttemptRecoveryResult(S, open, copyFaults) ==
    LET r1 == RestoreFromBackup(1, S, open, 1 \in copyFaults)
        r2 == RestoreFromBackup(2, r1.stores, r1.dbOpen, 2 \in copyFaults)
    IN IF VerifyIntegrity(Handle(open, S["main"]))
       THEN Recovered(S, open, TRUE, "none", {})
       ELSE IF r1.ok THEN Recovered(r1.stores, r1.dbOpen, TRUE, "backup1", {})
       ELSE IF r2.ok THEN Recovered(r2.stores, r2.dbOpen, TRUE, "backup2", {})
       ELSE Recovered(r2.stores, r2.dbOpen, FALSE, "none", {})

\* A file that exists and whose scan is the single row "ok".
Usable(file) == file.exists /\ file.scan = ScanOk

\* The record of a step that is not a tripleWrite call: S2 and open2 are the
\* stores and the state of db after it.
Maintenance(name, S2, open2, ok, source, arg, copyFaults) ==
    [Call(name, FALSE, stores, [NoWrite(stores, NoError, RetNone) EXCEPT !.stores = S2],
          ok, source)
       EXCEPT !.primaryKept = FALSE, !.arg = arg,
              !.mainOk = (dbOpen /\ stores["main"].scan = ScanOk),
              !.usable = {r \in Replicas : Usable(stores[r])},
              !.copyFaults = copyFaults,
              !.closedDb = (dbOpen /\ ~open2)]

\* The copy faults the environment may inject into copyFileSync.
CopyFaultChoices == SUBSET {1, 2}

\* Module load, line `performStartupCheck();`: its return value is dropped
\* and the importing module goes on to startServer().
PerformStartupCheck ==
    /\ pc = "load"
    /\ \E copyFaults \in CopyFaultChoices :
       \E r \in {PerformStartupCheckResult(stores, dbOpen, backupDb, copyFaults)} :
             /\ stores' = r.stores
             /\ dbOpen' = r.dbOpen
             /\ syncing' = syncing \cup r.started
             /\ last' = Maintenance("performStartupCheck", r.stores, r.dbOpen, r.ok,
                                  r.source, 0, copyFaults)
             /\ startup' = [startup EXCEPT
                               !.checkRuns = @ + 1, !.checkOk = r.ok,
                               !.unrecoverable = /\ ~VerifyIntegrity(MainHandle)
                                                 /\ \A b \in Replicas : ~Usable(stores[b])]
    /\ pc' = "start"
    /\ UNCHANGED <<backupDb, faultsLeft, replicaThrew, sideVars>>

\* Mutant: the server listens whatever the module initialization has done.
EarlyStartServer ==
    /\ pc \in {"import", "load", "start"}
    /\ pc' = "serving"
    /\ last' = Maintenance("startServer", stores, dbOpen, TRUE, "none", 0, {})
    /\ UNCHANGED <<stores, dbOpen, backupDb, syncing, faultsLeft, replicaThrew, startup, sideVars>>

\* server.js, `startServer();`: createServer(app).listen(PORT), after which
\* requests are accepted.
StartServer ==
    /\ pc = "start"
    /\ pc' = "serving"
    /\ last' = Maintenance("startServer", stores, dbOpen, TRUE, "none", 0, {})
    /\ UNCHANGED <<stores, dbOpen, backupDb, syncing, faultsLeft, replicaThrew, startup, sideVars>>

AttemptRecovery ==
    /\ pc = "serving"
    /\ \E copyFaults \in CopyFaultChoices :
       \E r \in {AttemptRecoveryResult(stores, dbOpen, copyFaults)} :
             /\ stores' = r.stores
             /\ dbOpen' = r.dbOpen
             /\ last' = Maintenance("attemptRecovery", r.stores, r.dbOpen, r.ok,
                                  r.source, 0, copyFaults)
    /\ UNCHANGED <<backupDb, pc, syncing, faultsLeft, replicaThrew, startup, sideVars>>

RestoreFromBackupCall ==
    /\ pc = "serving"
    /\ \E backupNum \in {1, 2}, copyThrows \in BOOLEAN :
       \E r \in {RestoreFromBackup(backupNum, stores, dbOpen, copyThrows)} :
             /\ stores' = r.stores
             /\ dbOpen' = r.dbOpen
             /\ last' = Maintenance("restoreFromBackup", r.stores, r.dbOpen, r.ok, "none",
                                  backupNum, IF copyThrows THEN {backupNum} ELSE {})
    /\ UNCHANGED <<backupDb, pc, syncing, faultsLeft, replicaThrew, startup, sideVars>>

\* DatabaseHealth.checkHealth(): mainDb.integrity = verifyIntegrity(db).
CheckHealth ==
    /\ pc = "serving"
    /\ last' = Maintenance("checkHealth", stores, dbOpen, VerifyIntegrity(MainHandle),
                           "none", 0, {})
    /\ UNCHANGED <<stores, dbOpen, backupDb, pc, syncing, faultsLeft, replicaThrew, startup, sideVars>>

\* DatabaseHealth.triggerBackup(): syncToBackups() on request.
TriggerBackup ==
    /\ pc = "serving"
    /\ LET r == SyncToBackups(dbOpen, backupDb)
       IN /\ syncing' = syncing \cup r.started
          /\ last' = Maintenance("triggerBackup", stores, dbOpen, r.ok, "none", 0, {})
    /\ UNCHANGED <<stores, dbOpen, backupDb, pc, faultsLeft, replicaThrew, startup, sideVars>>

\* A db.backup() copy ends: the backup file becomes a copy of the main file,
\* or the copy fails (always so once db is closed) and the file stays.
BackupComplete ==
    /\ \E r \in syncing, copied \in BOOLEAN :
          LET S2 == IF copied /\ dbOpen
                    THEN [stores EXCEPT ![r] = stores["main"]]
                    ELSE stores
          IN /\ syncing' = syncing \ {r}
             /\ stores' = S2
             /\ last' = Maintenance("backupComplete", S2, dbOpen, copied /\ dbOpen,
                                    r, 0, {})
    /\ UNCHANGED <<dbOpen, backupDb, pc, faultsLeft, replicaThrew, startup, sideVars>>

\* The environment damages a store file.
CorruptFile ==
    /\ \E s \in StoreNames :
          /\ stores[s].exists
          /\ stores[s].scan = ScanOk
          /\ stores' = [stores EXCEPT ![s].scan = ScanOneError]
          /\ last' = Maintenance("corruptFile", [stores EXCEPT ![s].scan = ScanOneError],
                                 dbOpen, FALSE, s, 0, {})
    /\ UNCHANGED <<dbOpen, backupDb, pc, syncing, faultsLeft, replicaThrew, startup, sideVars>>

\* A fresh installation that has started up: every file holds the empty
\* tables, the main handle is open, each backup handle is open or null.
NotStarted == [initRuns |-> 0, checkRuns |-> 0, checkOk |-> FALSE, unrecoverable |-> FALSE]
Started == [initRuns |-> 1, checkRuns |-> 1, checkOk |-> TRUE, unrecoverable |-> FALSE]

\* ----------------------------------------------------------------- initDB
\* CREATE TABLE IF NOT EXISTS for the six tables, on db only.
CreateTables(d) ==
    [d EXCEPT !.tables = Tables,
              !.expenseCols = IF "expenses" \in d.tables THEN @ ELSE CreatedExpenseColumns,
              !.incomeCols = IF "incomes" \in d.tables THEN @ ELSE IncomeColumns]

Columns(d, table) == IF table = "expenses" THEN d.expenseCols ELSE d.incomeCols

\* ALTER TABLE <table> ADD COLUMN <col>.
AlterAddColumn(d, table, col) ==
    IF table \notin d.tables THEN StmtResult(d, NoTableError, 0, 0)
    ELSE IF col \in Columns(d, table) THEN StmtResult(d, DuplicateColumnError, 0, 0)
    ELSE IF table = "expenses"
    THEN StmtResult([d EXCEPT !.expenseCols = @ \cup {col}], NoError, 0, 0)
    ELSE StmtResult([d EXCEPT !.incomeCols = @ \cup {col}], NoError, 0, 0)

\* The column checks of the migration block in the order of the code: the
\* three of main's expenses, two for each non-null backup handle, and
\* accountId of main's incomes.
\* `fails` marks the step whose ALTER TABLE, if it runs, throws.
MigrationStep(store, table, col) ==
    [store |-> store, table |-> table, col |-> col, fails |-> FALSE]
BackupMigrationSteps(bk, r) ==
    IF bk[r]
    THEN <<MigrationStep(r, "expenses", "whereSpent"), MigrationStep(r, "expenses", "userId")>>
    ELSE <<>>
MigrationSteps(bk) ==
    <<MigrationStep("main", "expenses", "whereSpent"),
      MigrationStep("main", "expenses", "userId"),
      MigrationStep("main", "expenses", "accountId")>>
    \o BackupMigrationSteps(bk, "backup1")
    \o BackupMigrationSteps(bk, "backup2")
    \o <<MigrationStep("main", "incomes", "accountId")>>

Migrated(S, err) == [stores |-> S, err |-> err]
Altered(S, store, r) == Migrated([S EXCEPT ![store].data = r.data], r.err)

\* Mutant: the backups are migrated like main, the expenses table created
\* first when it is missing.
CreatingMigrate(S, m) ==
    IF m.col \in Columns(S[m.store].data, m.table) /\ m.table \in S[m.store].data.tables
    THEN Migrated(S, NoError)
    ELSE Altered(S, m.store,
                 AlterAddColumn([S[m.store].data EXCEPT !.tables = @ \cup {m.table}],
                                m.table, m.col))

\* One `if (!hasColumn) ALTER TABLE`; for a backup only `if (tableExists)`.
Migrate(S, m) ==
    IF m.store # "main" /\ m.table \notin S[m.store].data.tables
    THEN Migrated(S, NoError)
    ELSE IF m.col \in Columns(S[m.store].data, m.table)
    THEN Migrated(S, NoError)
    ELSE IF m.fails
    THEN Migrated(S, IoError)
    ELSE Altered(S, m.store, AlterAddColumn(S[m.store].data, m.table, m.col))

\* The try block of the migration: the first throw ends it.  The result is
\* the stores as the block left them and the error its catch logged.
RECURSIVE RunMigration(_, _)
MigrationRest(steps, r) ==
    IF r.err # NoError THEN r ELSE RunMigration(steps, r.stores)
RunMigration(steps, S) ==
    IF steps = <<>> THEN Migrated(S, NoError)
    ELSE MigrationRest(Tail(steps), Migrate(S, Head(steps)))

\* UPDATE expenses / incomes SET accountId = ? WHERE userId = ? AND accountId
\* IS NULL; a throw is caught by the block.
Backfill(d) ==
    IF "accountId" \in d.expenseCols /\ "accountId" \in d.incomeCols
    THEN [d EXCEPT !.unlinked = FALSE]
    ELSE d
DefaultAccountInserted(r) == IF r.err # NoError THEN r.data ELSE Backfill(r.data)

\* The default account of user 'abhiknes', when the user exists and has no
\* account: inserted into db only, every throw caught.
DefaultAccount(d) ==
    IF Abhiknes(d) = 0 THEN d
    ELSE IF \E a \in d.accounts : a.userId = Abhiknes(d) THEN d
    ELSE DefaultAccountInserted(
             InsertAccount(Stmt("insertAccount", 0, Abhiknes(d), 0, 0,
                                DefaultAccountName, 1, FALSE, FALSE), d))

\* insertMany(defaults): the INSERTs of one db.transaction; a UNIQUE
\* violation rolls all of them back and is thrown.
InsertMany(rows, defaults) ==
    IF rows \cap defaults # {}
    THEN [rows |-> rows, err |-> ConstraintError]
    ELSE [rows |-> rows \cup defaults, err |-> NoError]

\* Mutant: the defaults are inserted whatever the table holds.
AlwaysSeed(rows, defaults) == InsertMany(rows, defaults)

\* `if (count === 0) insertMany(defaults)`.
SeedIfEmpty(rows, defaults) ==
    IF rows = {} THEN InsertMany(rows, defaults) ELSE [rows |-> rows, err |-> NoError]

Seeded(d, err) == [data |-> d, err |-> err]
CategoriesSeeded(d, r) == Seeded([d EXCEPT !.categories = r.rows], r.err)
\* Mutant: the defaults that are missing are inserted again.
ReseedCategories(d) ==
    CategoriesSeeded(d, InsertMany(d.categories, DefaultCategories \ d.categories))
SeedCategories(d) == CategoriesSeeded(d, SeedIfEmpty(d.categories, DefaultCategories))
IncomeCategoriesSeeded(d, r) == Seeded([d EXCEPT !.incomeCategories = r.rows], r.err)
SeedIncomeCategories(d) ==
    IncomeCategoriesSeeded(d, SeedIfEmpty(d.incomeCategories, DefaultIncomeCategories))

\* initDB(): the stores after it and the error it throws, if any.  Only the
\* two seeding blocks are outside a try.
WithMain(S, d) == [S EXCEPT !["main"].data = d]
InitDBDone(S, r) == Migrated(WithMain(S, r.data), r.err)
InitDBSeeded(S, r) ==
    IF r.err # NoError THEN Migrated(WithMain(S, r.data), r.err)
    ELSE InitDBDone(S, SeedIncomeCategories(r.data))
InitDBMigrated(S) == InitDBSeeded(S, SeedCategories(DefaultAccount(S["main"].data)))
InitDBResult(S, bk) ==
    InitDBMigrated(RunMigration(MigrationSteps(bk),
                                WithMain(S, CreateTables(S["main"].data))).stores)

\* initDB() when the ALTER TABLE of step k, if it runs, throws: `caught` is
\* what the catch of the migration block logged.
FailingSteps(steps, k) ==
    [i \in 1..Len(steps) |-> [steps[i] EXCEPT !.fails = (i = k)]]
\* Mutant: the migration block has no catch, its throw is initDB's.
UncaughtMigration(m, r) ==
    IF m.err # NoError
    THEN [stores |-> m.stores, err |-> m.err, caught |-> m.err]
    ELSE [stores |-> r.stores, err |-> r.err, caught |-> NoError]
\* `catch (error) { console.error('Migration error:', error); }`: m is what
\* the try block did, r what the rest of initDB did after it.
CaughtMigration(m, r) == [stores |-> r.stores, err |-> r.err, caught |-> m.err]
InitDBAfter(m) == CaughtMigration(m, InitDBMigrated(m.stores))
InitDBWith(S, bk, k) ==
    InitDBAfter(RunMigration(FailingSteps(MigrationSteps(bk), k),
                             WithMain(S, CreateTables(S["main"].data))))

\* The tables of main that hold rows they did not hold in `before`.
SeededTables(before, after) ==
    (IF after.categories \ before.categories # {} THEN {"categories"} ELSE {})
    \cup (IF after.incomeCategories \ before.incomeCategories # {}
          THEN {"income_categories"} ELSE {})
    \cup (IF after.accounts \ before.accounts # {} THEN {"accounts"} ELSE {})

\* Module load, line `initDB();`.  A throw of initDB ends the import, and with
\* it the process.
InitDB ==
    /\ pc = "import"
    /\ \E r \in {InitDBResult(stores, backupDb)} :
          /\ stores' = r.stores
          /\ pc' = IF r.err = NoError THEN "load" ELSE "crashed"
          /\ last' = [Maintenance("initDB", r.stores, dbOpen, r.err = NoError,
                                  "none", 0, {})
                        EXCEPT !.err = r.err,
                               !.seeded = SeededTables(stores["main"].data,
                                                       r.stores["main"].data)]
    /\ startup' = [startup EXCEPT !.initRuns = @ + 1]
    /\ UNCHANGED <<dbOpen, backupDb, syncing, faultsLeft, replicaThrew, sideVars>>

\* Module load when an ALTER TABLE of the migration block throws (the file is
\* read-only, the disk is full, the database is locked).
InitDBAlterFails ==
    /\ pc = "import"
    /\ \E k \in 1..Len(MigrationSteps(backupDb)) :
       \E r \in {InitDBWith(stores, backupDb, k)} :
          /\ r.caught # NoError
          /\ stores' = r.stores
          /\ pc' = IF r.err = NoError THEN "load" ELSE "crashed"
          /\ last' = [Maintenance("initDB", r.stores, dbOpen, r.err = NoError,
                                  "none", 0, {})
                        EXCEPT !.err = r.err,
                               !.failed = {MigrationSteps(backupDb)[k].store},
                               !.seeded = SeededTables(stores["main"].data,
                                                       r.stores["main"].data)]
    /\ startup' = [startup EXCEPT !.initRuns = @ + 1]
    /\ UNCHANGED <<dbOpen, backupDb, syncing, faultsLeft, replicaThrew, sideVars>>

\* The process ends and is started again: the module initialization opens
\* the handles anew on the files as they are.
Restart ==
    /\ pc \in {"serving", "crashed"}
    /\ pc' = "import"
    /\ dbOpen' = TRUE
    /\ syncing' = {}
    /\ startup' = NotStarted
    /\ replicaThrew' = FALSE
    /\ last' = Maintenance("restart", stores, TRUE, TRUE, "none", 0, {})
    /\ UNCHANGED <<stores, backupDb, faultsLeft, sideVars>>

\* Category.create / Category.delete, by name.  The names created are a
\* default's and one of the user's own.  The default categories are alike, so
\* they are deleted in one order: the next to go is the first of DeleteOrder
\* that main still holds.
CategoryNames == {"Other", "Pets"}
DeleteOrder ==
    <<"Food & Dining", "Transportation", "Shopping", "Entertainment",
      "Bills & Utilities", "Health", "Travel", "Other", "Pets">>
NextDeleted(rows) ==
    {DeleteOrder[i] : i \in {i \in 1..Len(DeleteOrder) :
                                 /\ DeleteOrder[i] \in rows
                                 /\ \A j \in 1..(i - 1) : DeleteOrder[j] \notin rows}}
CategoryCreate ==
    /\ pc = "serving"
    /\ \E n \in CategoryNames : Mutate(CategoryCreateOp(n))
CategoryDelete ==
    /\ pc = "serving"
    /\ \E n \in NextDeleted(stores["main"].data.categories) \cup {"Pets"} :
          Mutate(CategoryDeleteOp(n))

\* ------------------------------------ public/app.js: views and the PIN
\* The views of the navigation bar.
Views == {"home", "history", "analytics", "investments", "settings"}
NoView == "none"

\* A browser that has never held a token, after its page load: localStorage
\* and sessionStorage are empty, the state literal has its defaults and
\* init() has shown the auth modal.
\*   authToken       localStorage holds 'authToken'
\*   storedView      localStorage 'currentView', NoView when absent
\*   sessionPriv     sessionStorage 'privilegedMode' is 'true'
\*   pinOnServer     the server holds a PIN for the user
\*   currentView, privilegedMode, hasPin   the fields of state
\*   activeView      the view switchView last made active and loaded in
\*                   this page, NoView before the first switchView
\*   modal           the modal that is open
NoClient ==
    [authToken |-> FALSE, storedView |-> NoView, sessionPriv |-> FALSE,
     pinOnServer |-> FALSE, currentView |-> "home", privilegedMode |-> FALSE,
     hasPin |-> FALSE, activeView |-> NoView, modal |-> "auth"]

\* Auth.clearAuth: the token and the user leave state and localStorage;
\* 'currentView' stays in localStorage.
ClearAuth(c) == [c EXCEPT !.authToken = FALSE]

\* UI.switchView(viewName): state.currentView and localStorage are set, the
\* view gets the active class and its loader runs.
SwitchView(c, viewName) ==
    [c EXCEPT !.currentView = viewName, !.storedView = viewName,
              !.activeView = viewName]

\* initApp with the initial data loaded: the last viewed page is switched to.
InitApp(c) == SwitchView(c, c.currentView)

\* The state literal evaluated by a page load: currentView from localStorage
\* or 'home', privilegedMode from sessionStorage, hasPin false.
StateLiteral(c) ==
    [c EXCEPT !.currentView = IF c.storedView = NoView THEN "home" ELSE c.storedView,
              !.privilegedMode = c.sessionPriv,
              !.hasPin = FALSE,
              !.activeView = NoView,
              !.modal = "none"]

\* init(): with a token that the server verifies, initApp; with a token it
\* rejects, verifyToken clears it and the auth modal is shown; with no
\* token the auth modal is shown.
PageInit(c, verified) ==
    IF c.authToken /\ verified THEN InitApp(c)
    ELSE [ClearAuth(c) EXCEPT !.modal = "auth"]

\* handleInvestmentsAccess: API.hasPin decides between the PIN setup modal
\* and the PIN entry modal.
HandleInvestmentsAccess(c) ==
    [c EXCEPT !.hasPin = c.pinOnServer,
              !.modal = IF c.pinOnServer THEN "pin" ELSE "pinSetup"]

\* The page is loaded again in the same browser session.
PageLoad ==
    /\ \E verified \in BOOLEAN : client' = PageInit(StateLiteral(client), verified)
    /\ UNCHANGED <<dbVars, calc, reg>>

\* The browser session ends, which empties sessionStorage, and the page is
\* loaded in a new one.
NewSession ==
    /\ \E verified \in BOOLEAN :
          client' = PageInit(StateLiteral([client EXCEPT !.sessionPriv = FALSE]),
                             verified)
    /\ UNCHANGED <<dbVars, calc, reg>>

\* handleLogin / handleRegister with accepted credentials: the token is
\* stored, the auth modal hidden and initApp run.
HandleLogin ==
    /\ client.modal = "auth"
    /\ client' = InitApp([client EXCEPT !.authToken = TRUE, !.modal = "none"])
    /\ UNCHANGED <<dbVars, calc, reg>>

\* The click handler of a navigation button.
NavClick ==
    /\ client.authToken
    /\ client.modal = "none"
    /\ client.activeView # NoView
    /\ \E view \in Views :
          client' = IF view = "investments" /\ ~client.privilegedMode
                    THEN HandleInvestmentsAccess(client)
                    ELSE SwitchView(client, view)
    /\ UNCHANGED <<dbVars, calc, reg>>

\* handlePinSetup with a PIN the server stores.
HandlePinSetup ==
    /\ client.modal = "pinSetup"
    /\ client' = SwitchView([client EXCEPT !.pinOnServer = TRUE,
                                           !.hasPin = TRUE,
                                           !.privilegedMode = TRUE,
                                           !.sessionPriv = TRUE,
                                           !.modal = "none"],
                            "investments")
    /\ UNCHANGED <<dbVars, calc, reg>>

\* handlePinEntry: a valid PIN gives privileged mode and the investments
\* view; an invalid one leaves the modal open.
HandlePinEntry ==
    /\ client.modal = "pin"
    /\ \E valid \in BOOLEAN :
          client' = IF valid
                    THEN SwitchView([client EXCEPT !.privilegedMode = TRUE,
                                                   !.sessionPriv = TRUE,
                                                   !.modal = "none"],
                                    "investments")
                    ELSE client
    /\ UNCHANGED <<dbVars, calc, reg>>

\* closePinModal / closePinSetupModal.
ClosePinModal ==
    /\ client.modal \in {"pin", "pinSetup"}
    /\ client' = [client EXCEPT !.modal = "none"]
    /\ UNCHANGED <<dbVars, calc, reg>>

\* handleLogout, confirmed: Auth.logout clears the token, drops privileged
\* mode from state and sessionStorage and reloads the page.
HandleLogout ==
    /\ client.authToken
    /\ client.modal = "none"
    /\ client.activeView # NoView
    /\ client' = PageInit(StateLiteral([ClearAuth(client) EXCEPT
                                           !.privilegedMode = FALSE,
                                           !.sessionPriv = FALSE]),
                          FALSE)
    /\ UNCHANGED <<dbVars, calc, reg>>

\* ------------------------------------ GET /api/investments/calculate
\* What a fetch of the Alpha Vantage API gives: a body with the expected
\* field, a body with 'Note', a body with 'Information', another body, or a
\* rejected fetch / a response that is not ok.
Bodies == {"data", "note", "information", "other"}
Responses == Bodies \cup {"failed"}

\* apiCache keys: 'USD_INR' is 0, the ticker of the i-th investment is i.
RateKey == 0
CacheKeys == 0..MaxHoldings
NoEntry == "none"

\* fetchWithCache(url, cacheKey): an entry younger than CACHE_TTL is returned
\* without a request; otherwise the request goes out, a failed one throws and
\* a body is cached whatever it says.
FetchWithCache(cache, key, response) ==
    IF cache[key] # NoEntry
    THEN [data |-> cache[key], called |-> FALSE, threw |-> FALSE, cache |-> cache]
    ELSE IF response = "failed"
    THEN [data |-> NoEntry, called |-> TRUE, threw |-> TRUE, cache |-> cache]
    ELSE [data |-> response, called |-> TRUE, threw |-> FALSE,
          cache |-> [cache EXCEPT ![key] = response]]

\* No request in progress.  holdings[i] is whether the i-th investment has a
\* manual_price_override; calls counts the requests this handler run has
\* sent; waited is whether delay(2000) has been awaited since the last one.
NoCalc ==
    [pc |-> "idle", holdings |-> <<>>, i |-> 0, calls |-> 0, waited |-> FALSE,
     status |-> 0, cache |-> [k \in CacheKeys |-> NoEntry]]

SideIdle == calc = NoCalc /\ reg = NoRegs /\ client = NoClient

\* Lines 788-813: the investments of the user, the API key and the rate
\* override decide whether any request is needed for the exchange rate.
CalcBegin ==
    /\ calc.pc = "idle"
    /\ \E n \in 0..MaxHoldings, apiKey \in BOOLEAN, rateOverride \in BOOLEAN :
       \E holdings \in [1..n -> BOOLEAN] :
          calc' = IF n = 0
                  THEN [calc EXCEPT !.status = 200, !.holdings = <<>>, !.i = 0,
                                    !.calls = 0, !.waited = FALSE]
                  ELSE IF ~apiKey
                  THEN [calc EXCEPT !.status = 500, !.holdings = <<>>, !.i = 0,
                                    !.calls = 0, !.waited = FALSE]
                  ELSE [calc EXCEPT !.pc = IF rateOverride THEN "quote" ELSE "rate",
                                    !.holdings = holdings, !.i = 1, !.calls = 0,
                                    !.waited = FALSE, !.status = 0]
    /\ UNCHANGED <<dbVars, reg, client>>

\* Lines 815-830: the exchange rate; a body without the rate and a failed
\* fetch answer 500, a rate is followed by delay(2000).
CalcRate ==
    /\ calc.pc = "rate"
    /\ \E response \in Responses :
       \E f \in {FetchWithCache(calc.cache, RateKey, response)} :
          calc' = IF f.threw \/ f.data # "data"
                  THEN [calc EXCEPT !.pc = "idle", !.status = 500, !.cache = f.cache,
                                    !.calls = @ + (IF f.called THEN 1 ELSE 0),
                                    !.waited = FALSE]
                  ELSE [calc EXCEPT !.pc = "quote", !.cache = f.cache,
                                    !.calls = @ + (IF f.called THEN 1 ELSE 0),
                                    !.waited = TRUE]
    /\ UNCHANGED <<dbVars, reg, client>>

\* Whether the iteration for investment i ends with delay(2000): only a
\* body with a price gets past the `continue`s, and not for the last one.
QuoteDelays(c, f) ==
    ~f.threw /\ f.data = "data" /\ c.i < Len(c.holdings)

\* Lines 835-904: one iteration of the loop over the investments.
CalcQuote ==
    /\ calc.pc = "quote"
    /\ calc.i <= Len(calc.holdings)
    /\ IF calc.holdings[calc.i]
       THEN calc' = [calc EXCEPT !.i = @ + 1]
       ELSE \E response \in Responses :
            \E f \in {FetchWithCache(calc.cache, calc.i, response)} :
               calc' = [calc EXCEPT
                           !.i = @ + 1,
                           !.cache = f.cache,
                           !.calls = @ + (IF f.called THEN 1 ELSE 0),
                           !.waited = \/ QuoteDelays(calc, f)
                                      \/ ~f.called /\ calc.waited]
    /\ UNCHANGED <<dbVars, reg, client>>

\* Lines 906-913: the response after the loop.
CalcRespond ==
    /\ calc.pc = "quote"
    /\ calc.i > Len(calc.holdings)
    /\ calc' = [calc EXCEPT !.pc = "idle", !.status = 200]
    /\ UNCHANGED <<dbVars, reg, client>>

\* An entry of apiCache becomes older than CACHE_TTL.
CacheExpire ==
    /\ \E k \in CacheKeys :
          /\ calc.cache[k] # NoEntry
          /\ calc' = [calc EXCEPT !.cache[k] = NoEntry]
    /\ UNCHANGED <<dbVars, reg, client>>

InitServing ==
    /\ stores = [s \in StoreNames |-> File(TRUE, ScanOk, EmptyData)]
    /\ dbOpen = TRUE
    /\ backupDb \in [Replicas -> BOOLEAN]
    /\ pc = "serving"
    /\ startup = Started
    /\ SideIdle
    /\ syncing = {}
    /\ last = NoCall
    /\ replicaThrew = FALSE

\* The server serving, with no replica write that fails.
InitQuiet == InitServing /\ faultsLeft = 0

\* Expense methods, with replica writes that may fail.
InitExpense == InitServing /\ faultsLeft = MaxFaults

NextExpense ==
    \/ ExpenseCreate
    \/ ExpenseUpdate
    \/ ExpenseDelete

SpecExpense == InitExpense /\ [][NextExpense]_vars

\* Account methods; the only failures are those of the main database.
InitAccount == InitServing /\ faultsLeft = 0

NextAccount ==
    \/ AccountCreate
    \/ AccountUpdate
    \/ AccountDelete

SpecAccount == InitAccount /\ [][NextAccount]_vars

\* Investment methods, with replica writes that may fail.
NextInvestment ==
    \/ InvestmentUpsert
    \/ InvestmentUpdateOverrides

SpecInvestment == InitExpense /\ [][NextInvestment]_vars

\* The process has opened its handles and run initDB; the files are what
\* earlier runs and the environment left.  The main file holds PriorData and
\* scans to any outcome.  A backup file whose handle opened exists, one whose
\* handle is null may be missing; a backup file that exists holds the empty
\* tables and scans to "ok", to an error row, or makes the scan throw.
PriorData == [EmptyData EXCEPT
                 !.expenses = {[id |-> 1, userId |-> 1, amount |-> 10, categoryId |-> 1]},
                 !.expSeq = 1]
MissingFile == File(FALSE, ScanThrows, EmptyData)
BackupFiles(handle) ==
    {File(TRUE, sc, EmptyData) : sc \in {ScanOk, ScanOneError, ScanThrows}}
    \cup (IF handle THEN {} ELSE {MissingFile})

InitLoad ==
    /\ backupDb \in [Replicas -> BOOLEAN]
    /\ \E sc \in ScanOutcomes, b1 \in BackupFiles(backupDb["backup1"]),
          b2 \in BackupFiles(backupDb["backup2"]) :
          stores = [s \in StoreNames |->
                      IF s = "main" THEN File(TRUE, sc, PriorData)
                      ELSE IF s = "backup1" THEN b1 ELSE b2]
    /\ dbOpen = TRUE
    /\ pc = "load"
    /\ startup = [NotStarted EXCEPT !.initRuns = 1]
    /\ SideIdle
    /\ syncing = {}
    /\ last = NoCall
    /\ faultsLeft = 0
    /\ replicaThrew = FALSE

NextRecovery ==
    \/ PerformStartupCheck
    \/ StartServer
    \/ AttemptRecovery
    \/ RestoreFromBackupCall
    \/ CheckHealth
    \/ TriggerBackup
    \/ BackupComplete
    \/ CorruptFile
    \/ ExpenseCreate

SpecRecovery == InitLoad /\ [][NextRecovery]_vars

\* A process start on an installation whose user 1 is 'abhiknes' and has no
\* account yet, and the Account methods after it; no replica write fails.
InitDefault ==
    /\ stores = [s \in StoreNames |->
                   File(TRUE, ScanOk,
                        [EmptyData EXCEPT
                            !.users = {[id |-> 1, username |-> "abhiknes", pin |-> 0]}])]
    /\ dbOpen = TRUE
    /\ backupDb = [r \in Replicas |-> TRUE]
    /\ pc = "import"
    /\ startup = NotStarted
    /\ SideIdle
    /\ syncing = {}
    /\ last = NoCall
    /\ faultsLeft = 0
    /\ replicaThrew = FALSE

NextDefault ==
    \/ AccountCreate
    \/ AccountUpdate
    \/ AccountUpdateText
    \/ AccountDelete
    \/ AccountGetDefault
    \/ InitDB
    \/ PerformStartupCheck
    \/ StartServer
    \/ BackupComplete

SpecDefault == InitDefault /\ [][NextDefault]_vars

\* User methods on a started installation whose users table has, or has
\* not, been given the pin columns; replica writes may fail.
InitUser ==
    /\ \E pinColumns \in BOOLEAN :
          stores = [s \in StoreNames |->
                      File(TRUE, ScanOk, [EmptyData EXCEPT !.pinColumns = pinColumns])]
    /\ dbOpen = TRUE
    /\ backupDb \in [Replicas -> BOOLEAN]
    /\ pc = "serving"
    /\ startup = Started
    /\ SideIdle
    /\ syncing = {}
    /\ last = NoCall
    /\ faultsLeft = MaxFaults
    /\ replicaThrew = FALSE

NextUser ==
    \/ UserCreate
    \/ UserSetPin

SpecUser == InitUser /\ [][NextUser]_vars

\* User.create calls that overlap in time.
NextRegister ==
    \/ RegisterBegin
    \/ RegisterCommit

SpecRegister == InitUser /\ [][NextRegister]_vars

\* Income and Expense methods of two users on a started installation in
\* which each user has one account and one expense; both replicas are open
\* and no replica write fails.
TwoUserData ==
    [EmptyData EXCEPT
        !.accounts = {[id |-> 1, userId |-> 1, name |-> "HDFC", isDefault |-> 1],
                      [id |-> 2, userId |-> 2, name |-> "Cash", isDefault |-> 1]},
        !.accSeq = 2,
        !.expenses = {[id |-> 1, userId |-> 1, amount |-> 10, categoryId |-> 1],
                      [id |-> 2, userId |-> 2, amount |-> 10, categoryId |-> 1]},
        !.expSeq = 2]

InitIsolation ==
    /\ stores = [s \in StoreNames |-> File(TRUE, ScanOk, TwoUserData)]
    /\ dbOpen = TRUE
    /\ backupDb = [b \in Replicas |-> TRUE]
    /\ pc = "serving"
    /\ startup = Started
    /\ SideIdle
    /\ syncing = {}
    /\ last = NoCall
    /\ faultsLeft = 0
    /\ replicaThrew = FALSE

NextIsolation ==
    \/ IncomeCreate
    \/ IncomeUpdate
    \/ IncomeDelete
    \/ ExpenseUpdate
    \/ ExpenseDelete

SpecIsolation == InitIsolation /\ [][NextIsolation]_vars

\* Calculate requests, one at a time, against the Alpha Vantage API.
NextCalc ==
    \/ CalcBegin
    \/ CalcRate
    \/ CalcQuote
    \/ CalcRespond
    \/ CacheExpire

SpecCalc == InitQuiet /\ [][NextCalc]_vars

\* A browser using the application while the server serves.
NextClient ==
    \/ PageLoad
    \/ NewSession
    \/ HandleLogin
    \/ NavClick
    \/ HandlePinSetup
    \/ HandlePinEntry
    \/ ClosePinModal
    \/ HandleLogout
SpecClient == InitQuiet /\ [][NextClient]_vars

\* A process start on files that earlier runs left: main is a new file, or a
\* file from before the migrations (categories and expenses only, one
\* category of the user's own, user 'abhiknes' with unlinked expenses), or a
\* file a completed startup left; a backup is a new file, a file from before
\* the migrations, or a file a completed startup left.
LegacyData == [BlankData EXCEPT !.tables = {"users", "categories", "expenses"},
                                !.categories = {"Pets"},
                                !.users = {[id |-> 1, username |-> "abhiknes", pin |-> 0]},
                                !.unlinked = TRUE]
MainStartData == {BlankData, LegacyData, EmptyData}
BackupStartData == {BlankData, LegacyData, EmptyData}

InitImport ==
    /\ backupDb \in [Replicas -> BOOLEAN]
    /\ \E m \in MainStartData, b1 \in BackupStartData, b2 \in BackupStartData :
          stores = [s \in StoreNames |->
                      File(TRUE, ScanOk,
                           IF s = "main" THEN m ELSE IF s = "backup1" THEN b1 ELSE b2)]
    /\ dbOpen = TRUE
    /\ pc = "import"
    /\ startup = NotStarted
    /\ SideIdle
    /\ syncing = {}
    /\ last = NoCall
    /\ faultsLeft = 0
    /\ replicaThrew = FALSE

NextStartup ==
    \/ InitDB
    \/ PerformStartupCheck
    \/ StartServer
    \/ BackupComplete
    \/ CategoryCreate
    \/ CategoryDelete
    \/ Restart

SpecStartup == InitImport /\ [][NextStartup]_vars

\* Process starts in which a column patch may fail.
NextMigration ==
    \/ InitDB
    \/ InitDBAlterFails
    \/ PerformStartupCheck
    \/ StartServer
    \/ BackupComplete
    \/ Restart

SpecMigration == InitImport /\ [][NextMigration]_vars


\* ------------------------------------------------------------ HTTP layer
\* error.message.includes(pattern) for the errors of the model.  The only
\* constraint of INSERT INTO expenses is the FOREIGN KEY on categoryId.
MessageIncludes(err, pattern) ==
    <<err, pattern>> \in {<<ConstraintError, "FOREIGN KEY constraint failed">>,
                          <<BackupWriteError, "backup">>}

\* handleDatabaseError(error, res): the status of the response.
HandleDatabaseError(err) ==
    IF MessageIncludes(err, "UNIQUE constraint failed") THEN 409
    ELSE IF MessageIncludes(err, "FOREIGN KEY constraint failed") THEN 400
    ELSE IF MessageIncludes(err, "SQLITE_BUSY") \/ MessageIncludes(err, "database is locked")
    THEN 503
    ELSE IF MessageIncludes(err, "backup") \/ MessageIncludes(err, "corruption") THEN 500
    ELSE 500

\* POST /api/expenses with a valid body, for the Expense.create call recorded
\* in `call`: 201 with the created expense, or the error response.
PostExpenses(call) ==
    IF call.err = NoError
    THEN [status |-> 201, body |-> call.ret]
    ELSE [status |-> HandleDatabaseError(call.err), body |-> RetNone]

\* ================================================================ claims
BothReplicasOpen == \A r \in Replicas : backupDb[r]
PrimarySucceeded == last.tw /\ last.primaryCalls = 1 /\ last.primaryErr = NoError
PrimaryFailed == last.tw /\ last.primaryErr # NoError

\* C1: whenever a tripleWrite call's operation succeeded on the primary, the
\* primary holds the tables that operation left after the call, whatever
\* happened on the replicas.
C1_ReplicaFailureKeepsPrimaryWrite ==
    PrimarySucceeded => last.primaryKept

\* C2: when the operation succeeded on the primary and exactly one replica
\* failed, the call raises no error and returns the value computed on the
\* primary.
C2_OneReplicaFailureReturnsPrimaryValue ==
    (PrimarySucceeded /\ Cardinality(last.failed) = 1)
        => (last.err = NoError /\ last.ret = last.primaryRet)

\* C3: when the operation fails on the primary, the call fails with that same
\* error, the primary file is as it was before the call, the operation was
\* invoked on no replica and no replica file changed, and the operation was
\* not invoked on the primary a second time.
C3_PrimaryFailureFailsFast ==
    PrimaryFailed =>
        /\ last.err = last.primaryErr
        /\ ~last.mainChanged
        /\ last.attempted = {}
        /\ last.touched = {}
        /\ last.primaryCalls <= 1

\* A constraint violation of the main database with both replicas open.
C3_Witness ==
    /\ PrimaryFailed
    /\ last.primaryErr = ConstraintError
    /\ last.primaryCalls = 1
    /\ BothReplicasOpen

\* C4: with both replicas open, when the operation throws on replica 1 the
\* coordinator still invokes it on replica 2.
C4_Replica2AttemptedAfterReplica1Fails ==
    (last.tw /\ BothReplicasOpen /\ "backup1" \in last.failed)
        => "backup2" \in last.attempted

\* C5: when a multi-statement operation throws on the primary after an
\* earlier statement had changed it, the primary file is afterwards as it
\* was before the call.
C5_PartialPrimaryEffectsRolledBack ==
    (PrimaryFailed /\ last.primaryDirty) => ~last.mainChanged

\* Account.create with isDefault: the defaults were cleared, then the insert
\* threw.
C5_Witness ==
    /\ last.call = "Account.create"
    /\ PrimaryFailed
    /\ last.primaryDirty
    /\ \E r \in stores["main"].data.accounts : r.isDefault = 1

FirstRowOk(scan) == ~scan.threw /\ scan.rows # <<>> /\ Head(scan.rows) = "ok"
C7_VerifyIntegrityOnlyOnOk ==
    /\ \A s \in StoreNames : \A open \in BOOLEAN :
          VerifyIntegrity(Handle(open, stores[s])) = (open /\ FirstRowOk(stores[s].scan))
    /\ last.call = "checkHealth" => (last.ok = (dbOpen /\ FirstRowOk(stores["main"].scan)))

\* checkHealth ran verifyIntegrity on a main database whose scan throws, or
\* reports two error rows, and got false.
C7_Witness ==
    /\ last.call = "checkHealth"
    /\ ~last.ok
    /\ dbOpen
    /\ stores["main"].scan \in {ScanThrows, ScanTwoErrors}

RecoveryCalls == {"restoreFromBackup", "attemptRecovery", "performStartupCheck"}

\* C8: a recovery call closes the primary handle only when some backup file
\* existed and scanned to "ok"; it changes the primary file only into a copy
\* of such a backup file; and restoreFromBackup(n), when backup n is missing
\* or fails the scan, returns false and leaves primary file and handle alone.
C8_OnlyVerifiedReplicaPromoted ==
    last.call \in RecoveryCalls =>
        /\ last.closedDb => last.usable # {}
        /\ last.mainChanged => \E r \in last.usable : stores["main"] = stores[r]
        /\ (last.call = "restoreFromBackup" /\ BackupPath(last.arg) \notin last.usable)
              => (~last.ok /\ ~last.mainChanged /\ ~last.closedDb)
        /\ (last.call = "restoreFromBackup" /\ last.ok)
              => stores["main"] = stores[BackupPath(last.arg)]

\* restoreFromBackup promoted a backup whose rows differ from the primary's.
C8_Witness ==
    /\ last.call = "restoreFromBackup"
    /\ last.ok
    /\ last.mainChanged
    /\ last.closedDb

\* C9: when the primary fails verification, recovery promotes backup 1 if it
\* is usable and its copy succeeds and reports backup 1; otherwise it
\* promotes backup 2 under the same conditions and reports backup 2; it
\* reports failure only when neither could be promoted.
Promotable(n) == BackupPath(n) \in last.usable /\ n \notin last.copyFaults
C9_RecoveryOrder ==
    (last.call \in {"attemptRecovery", "performStartupCheck"} /\ ~last.mainOk) =>
        /\ Promotable(1) =>
              (last.ok /\ last.source = "backup1" /\ stores["main"] = stores["backup1"])
        /\ (~Promotable(1) /\ Promotable(2)) =>
              (last.ok /\ last.source = "backup2" /\ stores["main"] = stores["backup2"])
        /\ (~Promotable(1) /\ ~Promotable(2)) => (~last.ok /\ last.source = "none")

\* Corrupted primary, backup 1 present but invalid, backup 2 valid:
\* attemptRecovery succeeded from backup 2.
C9_Witness ==
    /\ last.call = "attemptRecovery"
    /\ ~last.mainOk
    /\ stores["backup1"].exists
    /\ "backup1" \notin last.usable
    /\ last.ok
    /\ last.source = "backup2"

\* C10: given a primary that fails verification and a valid backup 1, after
\* restoreFromBackup(1), attemptRecovery or the startup check reports that it
\* restored from backup 1, the primary handle is open, verifyIntegrity on it
\* is true and the primary holds backup 1's rows.
C10_RestoredPrimaryVerifies ==
    (/\ last.call \in RecoveryCalls
     /\ ~last.mainOk
     /\ "backup1" \in last.usable
     /\ last.ok
     /\ (last.arg = 1 \/ last.source = "backup1"))
        => /\ dbOpen
           /\ VerifyIntegrity(MainHandle)
           /\ stores["main"].data = stores["backup1"].data

\* C11: when performStartupCheck found the main database failing
\* verification and no backup that exists and verifies, and the main database
\* still fails verification, no tripleWrite call runs its operation on the
\* main database.
C11_NoWriteAfterUnrecoverableStartup ==
    (startup.unrecoverable /\ ~VerifyIntegrity(MainHandle))
        => ~(last.tw /\ last.primaryCalls = 1)

\* C12: whenever the server accepts requests, initDB and performStartupCheck
\* have each run exactly once in this process; neither ever runs a second
\* time.
C12_InitAndCheckOnceBeforeServing ==
    /\ startup.initRuns <= 1
    /\ startup.checkRuns <= 1
    /\ pc = "serving" => (startup.initRuns = 1 /\ startup.checkRuns = 1)

\* The server has just started to listen.
C12_Witness ==
    /\ pc = "serving"
    /\ last.call = "startServer"
    /\ startup.initRuns = 1
    /\ startup.checkRuns = 1

\* C13: initDB raises no error, and a second initDB run right after it
\* raises no error and leaves every store as the first run left it.
C13_InitDBIdempotent ==
    last.call = "initDB" =>
        /\ last.err = NoError
        /\ InitDBResult(stores, backupDb) = Migrated(stores, NoError)

\* A first run that seeded main and added columns to a backup.
C13_Witness ==
    /\ last.call = "initDB"
    /\ "income_categories" \in last.seeded
    /\ "accounts" \in last.seeded
    /\ last.touched # {}

\* C14: an initDB step leaves the set of tables of every backup as it was,
\* leaves a backup without the expenses table wholly unchanged, and only
\* adds to the columns of the others.
C14_InitDBOnlyPatchesBackups ==
    [][last'.call = "initDB" =>
          \A r \in Replicas :
             /\ stores'[r].data.tables = stores[r].data.tables
             /\ "expenses" \notin stores[r].data.tables => stores'[r] = stores[r]
             /\ stores[r].data.expenseCols \subseteq stores'[r].data.expenseCols
             /\ stores[r].data.incomeCols \subseteq stores'[r].data.incomeCols]_vars

\* initDB ran with one open backup that lacks the expenses table and another
\* to which it added columns.
C14_Witness ==
    /\ last.call = "initDB"
    /\ last.touched # {}
    /\ \E r \in Replicas : backupDb[r] /\ "expenses" \notin stores[r].data.tables

\* C15: after an initDB run that inserted default rows into main, every open
\* backup holds those rows too.
C15_SeedingReplicated ==
    last.call = "initDB" =>
        \A r \in Replicas :
           backupDb[r] =>
              /\ "categories" \in last.seeded
                    => DefaultCategories \subseteq stores[r].data.categories
              /\ "income_categories" \in last.seeded
                    => DefaultIncomeCategories \subseteq stores[r].data.incomeCategories
              /\ "accounts" \in last.seeded
                    => \E a \in stores[r].data.accounts : a.name = DefaultAccountName

\* The default categories as the README lists them.
DocumentedCategories ==
    {"Food & Dining", "Transportation", "Shopping", "Entertainment",
     "Bills & Utilities", "Health", "Travel", "Other"}

\* C16: an initDB step on an empty categories table leaves exactly the 8
\* documented categories in main, and on a non-empty one leaves the
\* categories of main as they were.
C16_SeedOnlyWhenEmpty ==
    [][last'.call = "initDB" =>
          IF stores["main"].data.categories = {}
          THEN /\ stores'["main"].data.categories = DocumentedCategories
               /\ Cardinality(stores'["main"].data.categories) = 8
          ELSE stores'["main"].data.categories = stores["main"].data.categories]_vars

\* A later initialization on a table that was seeded and from which the user
\* has deleted a default category.
C16_Witness ==
    /\ last.call = "initDB"
    /\ "categories" \notin last.seeded
    /\ "Travel" \in stores["main"].data.categories
    /\ "Food & Dining" \notin stores["main"].data.categories

\* C17: when Expense.create's operation succeeded on the primary, POST
\* /api/expenses answers 201 with the primary's row, whatever happened on
\* the replicas.
C17_ReplicaFailureInvisibleToClient ==
    (last.call = "Expense.create" /\ PrimarySucceeded)
        => /\ PostExpenses(last).status = 201
           /\ PostExpenses(last).body = last.primaryRet

\* C18: whenever a method has run a statement on a backup handle, it did so
\* through tripleWrite.
C18_ReplicaWritesOnlyByTripleWrite ==
    last.attempted # {} => last.tw

\* The accounts rows of user u in the main database.
AccountsOf(S, u) == {r \in S["main"].data.accounts : r.userId = u}

\* C19: no step takes the last account of a user away; an Account.delete
\* that throws 'Cannot delete the last account' leaves every store as it
\* was; and Account.delete reaches its DELETE only when some user has two
\* accounts or more.
C19_LastAccountKept ==
    [][/\ \A u \in Users : AccountsOf(stores, u) # {} => AccountsOf(stores', u) # {}
       /\ (last'.call = "Account.delete" /\ last'.err = LastAccountError)
             => stores' = stores
       /\ (last'.call = "Account.delete" /\ last'.tw)
             => \E u \in Users : Cardinality(AccountsOf(stores, u)) >= 2]_vars

\* Account.delete was refused for a user who has exactly one account.
C19_Witness ==
    /\ last.call = "Account.delete"
    /\ last.err = LastAccountError
    /\ \E u \in Users : Cardinality(AccountsOf(stores, u)) = 1

\* A step that is a call of an Income or Expense method with userId u.
CallBy(u) ==
    \/ IncomeCreateBy(u)
    \/ IncomeUpdateBy(u)
    \/ IncomeDeleteBy(u)
    \/ pc = "serving" /\ \E id \in 1..MaxId, a \in Amounts : Mutate(ExpenseUpdateOp(id, u, a))
    \/ pc = "serving" /\ \E id \in 1..MaxId : Mutate(ExpenseDeleteOp(id, u))

\* The rows of a table that a step inserted, changed or removed in store s.
ChangedRows(before, after) == (before \ after) \cup (after \ before)

\* The rows the returned value of the step is built from: the incomes or
\* expenses row and, for an income, the accounts row joined to it.
ReturnedRows(call) ==
    IF call.ret.kind # "row" \/ call.ret.row = NoRow THEN {}
    ELSE IF call.call \in {"Income.create", "Income.update"}
    THEN {[userId |-> call.ret.row.userId]}
         \cup (IF call.ret.row.account = NoRow THEN {}
               ELSE {[userId |-> call.ret.row.account.userId]})
    ELSE {[userId |-> call.ret.row.userId]}

\* C20: a call of an Income or Expense method with userId u changes, in
\* every store, only incomes and expenses rows of u, and the value it returns
\* is built only from rows of u.
C20_UserIsolation ==
    [][\A u \in Users :
          CallBy(u) =>
             /\ \A s \in StoreNames :
                   \A r \in ChangedRows(stores[s].data.incomes, stores'[s].data.incomes)
                            \cup ChangedRows(stores[s].data.expenses,
                                             stores'[s].data.expenses) :
                      r.userId = u
             /\ \A r \in ReturnedRows(last') : r.userId = u]_vars

\* C21: within one calculate request, a request to the Alpha Vantage API
\* that follows an earlier one of the same handler run is sent only after
\* delay(2000) has been awaited in between.
C21_DelayBetweenApiCalls ==
    [][(calc.pc # "idle" /\ calc'.calls = calc.calls + 1 /\ calc.calls > 0)
          => calc.waited]_vars

\* C22: whatever the interleaving of User.create calls, the users table of
\* the primary never holds two rows with one username, at most one call for a
\* username succeeds, and a call whose transaction runs after a call for
\* the same username has succeeded fails with 'Username already exists'.
C22_UniqueUsername ==
    /\ [](/\ \A r1, r2 \in stores["main"].data.users :
                r1.username = r2.username => r1 = r2
          /\ \A c1, c2 \in Callers :
                (/\ reg[c1].pc = "done" /\ reg[c1].err = NoError
                 /\ reg[c2].pc = "done" /\ reg[c2].err = NoError
                 /\ reg[c1].name = reg[c2].name) => c1 = c2)
    /\ [][\A c \in Callers :
            (/\ reg[c].pc = "hashing" /\ reg'[c].pc = "done"
             /\ \E c2 \in Callers : /\ reg[c2].pc = "done"
                                     /\ reg[c2].err = NoError
                                     /\ reg[c2].name = reg[c].name)
               => reg'[c].err = UsernameExistsError]_vars

\* Three calls for one username overlapped: one has succeeded, one has
\* failed with 'Username already exists', one still awaits its hash.
C22_Witness ==
    \E c1, c2, c3 \in Callers :
       /\ reg[c1].pc = "done" /\ reg[c1].err = NoError
       /\ reg[c2].pc = "done" /\ reg[c2].err = UsernameExistsError
       /\ reg[c3].pc = "hashing"
       /\ reg[c1].name = reg[c2].name /\ reg[c2].name = reg[c3].name

\* C23: an initDB run in which an ALTER TABLE threw, on the primary or on a
\* backup, raises no error: it goes on to the default account, seeds the
\* empty category tables of the primary, and leaves the process at the
\* startup check.
C23_MigrationFailureDoesNotAbort ==
    [][(last'.call = "initDB" /\ last'.failed # {}) =>
          /\ last'.err = NoError
          /\ pc' = "load"
          /\ stores'["main"].data.categories # {}
          /\ stores'["main"].data.incomeCategories # {}
          /\ stores["main"].data.categories = {}
                => stores'["main"].data.categories = DefaultCategories
          /\ stores["main"].data.incomeCategories = {}
                => stores'["main"].data.incomeCategories = DefaultIncomeCategories
          /\ Abhiknes(stores["main"].data) # 0
                => \E a \in stores'["main"].data.accounts :
                      a.userId = Abhiknes(stores["main"].data)]_vars

\* The startup check has run in a process whose initDB caught the throw of
\* a column patch of a backup and went on to seed the primary.
C23_Witness ==
    /\ last.call = "performStartupCheck"
    /\ startup.initRuns = 1
    /\ \E r \in Replicas :
          /\ backupDb[r]
          /\ "expenses" \in stores[r].data.tables
          /\ "userId" \notin stores[r].data.expenseCols
    /\ "accountId" \in stores["main"].data.expenseCols
    /\ stores["main"].data.categories # {}

\* C24: a startup check or an attemptRecovery call that finds the primary
\* passing verification leaves the primary handle open and the primary file
\* as it was, and attemptRecovery then reports success with no source.
C24_NoRecoveryWhenPrimaryVerifies ==
    [][(/\ last'.call \in {"performStartupCheck", "attemptRecovery"}
        /\ VerifyIntegrity(MainHandle)) =>
          /\ dbOpen' = dbOpen
          /\ ~last'.closedDb
          /\ stores'["main"] = stores["main"]
          /\ last'.ok
          /\ last'.source = "none"]_vars

\* attemptRecovery has found the primary passing verification while a
\* usable backup held other data than the primary.
C24_Witness ==
    /\ last.call = "attemptRecovery"
    /\ last.mainOk
    /\ last.ok
    /\ last.source = "none"
    /\ \E r \in Replicas : r \in last.usable /\ stores[r].data # stores["main"].data

\* C25: a tripleWrite call that raises an error leaves every store, the
\* primary and both replicas, as it was before the call.
C25_FailedWriteLeavesNoTrace ==
    [][(last'.tw /\ last'.err # NoError) => stores' = stores]_vars

\* C26: the row an Expense.create call that succeeds inserts into an open
\* replica has the id of the row it inserted into the primary, also after
\* earlier calls that failed on a replica.
C26_SameIdInEveryStore ==
    [][(last'.call = "Expense.create" /\ last'.err = NoError) =>
          \A r \in Replicas :
             backupDb[r] =>
                \A row \in stores'[r].data.expenses \ stores[r].data.expenses :
                   row.id = last'.ret.row.id]_vars

\* C27: after an initDB run, the expenses table of every open replica that
\* has one has every column of the primary's expenses table.
C27_ReplicaHasPrimaryColumns ==
    last.call = "initDB" =>
        \A r \in Replicas :
           (backupDb[r] /\ "expenses" \in stores[r].data.tables) =>
              stores["main"].data.expenseCols \subseteq stores[r].data.expenseCols

\* C28: in the primary, each user has at most one account with
\* isDefault = 1.
C28_AtMostOneDefault ==
    \A u \in Users :
       Cardinality({a \in stores["main"].data.accounts :
                       a.userId = u /\ a.isDefault = 1}) <= 1

\* C29: a User.setPin call that raises an error leaves the users rows of
\* the primary, and so the PIN stored for the user, as they were.
C29_FailedSetPinKeepsPin ==
    [][(last'.call = "User.setPin" /\ last'.err # NoError) =>
          stores'["main"].data.users = stores["main"].data.users]_vars

\* C30: the investments view is the active view of the page only while
\* state.privilegedMode is true.
C30_InvestmentsOnlyWhenPrivileged ==
    client.activeView = "investments" => client.privilegedMode

====
